---- MODULE Spec2Model ----
(***************************************************************************)
(* A model of the console RPG's world core: the seeded world generator,    *)
(* the toroidal tile grid with its fog-of-war overlay, the settlement      *)
(* (location) generator and the input handlers that move the player.       *)
(*                                                                         *)
(* Numbers.  Floating point values are kept in thousandths ("milli"):      *)
(* 0.5 is 500, 0.78 is 780.  Noise coordinates are kept in units of 1e-4.  *)
(* Machine integers are scaled down: a 32-bit word has WordBits bits and   *)
(* usize has twice as many, so that wrap-around on conversion is kept.     *)
(***************************************************************************)
EXTENDS Integers, Sequences, FiniteSets, TLC

\* ------------------------------------------------------------------------
\* Bounds of the model
\* ------------------------------------------------------------------------
MaxSeed == 7
WordBits == 8
BigWidth == 10
BigHeight == 9
MaxSteps == 4

Seeds == 0..MaxSeed
WorldDims == {<<4, 3>>, <<BigWidth, BigHeight>>}

\* ------------------------------------------------------------------------
\* Machine integers (scaled)
\* ------------------------------------------------------------------------
I32Mod == 2 ^ WordBits
UsizeMod == 2 ^ (2 * WordBits)

\* `v as i32`: keep the low word, read it as two's complement
AsI32(v) ==
    LET low == v % I32Mod
    IN  IF low >= I32Mod \div 2 THEN low - I32Mod ELSE low

\* `v as usize` of a signed value: two's complement in the usize width
AsUsize(v) == v % UsizeMod

\* i32::rem_euclid with a positive right-hand side
RemEuclid(a, n) == a % n

\* the `%` operator of Rust: the result takes the sign of the dividend
RustRem(a, n) == IF a >= 0 THEN a % n ELSE 0 - ((0 - a) % n)

\* u32 addition as an optimised build performs it
WrappingAdd(a, b) == (a + b) % I32Mod

Abs(v) == IF v < 0 THEN 0 - v ELSE v
Clamp(v, lo, hi) == IF v < lo THEN lo ELSE IF v > hi THEN hi ELSE v
Max(a, b) == IF a > b THEN a ELSE b

\* ------------------------------------------------------------------------
\* Coherent noise (the `noise` crate), a pure function of (seed, point)
\* with values in [-1000, 1000]
\* ------------------------------------------------------------------------
Perlin(s, X, Y) ==
    (((s + 1) * 389 + (X % 1009) * 31 + (Y % 1013) * 57
        + ((X % 97) * (Y % 89)) * 7 + s * (X % 53) + (s * s) * 211) % 2001) - 1000

RidgedMulti(s, X, Y) ==
    (((s + 3) * 613 + (X % 1013) * 47 + (Y % 1009) * 29
        + ((X % 83) * (Y % 101)) * 11 + s * (Y % 59)) % 2001) - 1000

\* ------------------------------------------------------------------------
\* StdRng: a seeded stream; every draw advances the state and yields a
\* point of the unit interval, in percent (0..99)
\* ------------------------------------------------------------------------
SeedFromU64(s) == (s * 7919 + 12345) % 65537
RngNext(st) == (st * 75 + 74) % 65537
RngRaw(st) == (st * 100) \div 65537

\* gen_range(lo..hi) over integers, from the raw draw u
GenRange(u, lo, hi) == lo + (u * (hi - lo)) \div 100
\* gen_range(lo..=hi)
GenRangeIncl(u, lo, hi) == lo + (u * (hi + 1 - lo)) \div 100
\* gen_bool(p), p in percent
GenBool(u, p) == u < p
\* next_u32
NextU32(st) == st % I32Mod

\* ------------------------------------------------------------------------
\* Terrain, settlements
\* ------------------------------------------------------------------------
TerrainType ==
    {"Water", "Plains", "Forest", "Mountains", "Desert", "Snow", "Jungle",
     "Swamp", "Road"}
Species == {"Human", "Orc", "Elf", "Cat", "Rat", "Bee", "Bear", "Ghost"}
LocationState ==
    {"Thriving", "Struggling", "Abandoned", "Ruins", "Cursed", "Sacred", "Hidden"}

OCEAN_LEVEL == 500
FOG_RADIUS == 4

\* layered_perlin: octaves of the base field, normalised to [0, 1000]
RECURSIVE LayerAcc(_, _, _, _, _, _, _, _, _, _)
LayerAcc(X, Y, s, octaves, persistence, lacunarity, frequency, amplitude, total, max_value) ==
    IF octaves = 0 THEN [total |-> total, max_value |-> max_value]
    ELSE LayerAcc(X, Y, s, octaves - 1, persistence, lacunarity,
                  frequency * lacunarity, (amplitude * persistence) \div 1000,
                  total + (Perlin(s, X * frequency, Y * frequency) * amplitude) \div 1000,
                  max_value + amplitude)

layered_perlin(X, Y, s, octaves, persistence, lacunarity) ==
    LET acc == LayerAcc(X, Y, s, octaves, persistence, lacunarity, 1, 1000, 0, 0)
    IN  ((acc.total * 1000) \div acc.max_value + 1000) \div 2

\* get_noise: always samples the height field; scale is in units of 1e-4
get_noise(s, x, y, scale, persistence, lacunarity, octaves) ==
    layered_perlin(x * scale, y * scale, s, octaves, persistence, lacunarity)

\* get_temperature, the latitude term: 1 - |2 * (y / height - 0.5)|
LatitudeFactor(h, y) == 1000 - Abs((2000 * y) \div h - 1000)

\* get_temperature, the blend of the latitude and the noise in [-1000, 1000]
Blend(latitude_factor, noise_factor) ==
    (800 * latitude_factor + 200 * ((noise_factor + 1000) \div 2)) \div 1000

\* get_temperature: 0.8 * latitude + 0.2 * noise01
get_temperature(s, h, x, y) ==
    Blend(LatitudeFactor(h, y), Perlin(WrappingAdd(s, 2), x * 1000, y * 1000))

\* a plausible slip: the moisture bands are matched before the hot biomes
determine_biome_moisture_first(h, t, m) ==
    IF h < OCEAN_LEVEL THEN "Water"
    ELSE IF h > 780 THEN "Mountains"
    ELSE IF t < 250 THEN "Snow"
    ELSE IF m < 400 THEN "Plains"
    ELSE IF m < 600 THEN "Forest"
    ELSE IF t > 500 /\ m > 600 THEN "Jungle"
    ELSE "Swamp"

determine_biome(h, t, m) ==
    IF h < OCEAN_LEVEL THEN "Water"
    ELSE IF h > 780 THEN "Mountains"
    ELSE IF t < 250 THEN "Snow"
    ELSE IF t > 500 /\ m < 400 THEN "Desert"
    ELSE IF t > 500 /\ m > 600 THEN "Jungle"
    ELSE IF m < 400 THEN "Plains"
    ELSE IF m < 600 THEN "Forest"
    ELSE "Swamp"

\* the three per-cell fields of WorldGenerator::generate
Heights(s, x, y) == get_noise(s, x, y, 100, 700, 2, 6)

TerrainMap(s, h, x, y) ==
    determine_biome(Heights(s, x, y), get_temperature(s, h, x, y),
                    get_noise(s, x, y, 300, 750, 2, 3))

RiverMap(s, x, y) ==
    LET raw == RidgedMulti(WrappingAdd(s, 4), x * 200, y * 200)
        ridged == (raw + 1000) \div 2
    IN  ridged > 600

\* ------------------------------------------------------------------------
\* Settlement generation (WorldGenerator::generate_location)
\* ------------------------------------------------------------------------
\* the state chosen by the roll gen_range(0..100)
StateOfRoll(r) ==
    IF r <= 10 THEN "Ruins"
    ELSE IF r <= 20 THEN "Abandoned"
    ELSE IF r <= 30 THEN "Cursed"
    ELSE IF r <= 40 THEN "Hidden"
    ELSE IF r <= 60 THEN "Struggling"
    ELSE IF r <= 80 THEN "Sacred"
    ELSE "Thriving"

\* a plausible slip: the bands of Sacred and Thriving exchanged
SizeRangeSwapped(state) ==
    CASE state \in {"Ruins", "Abandoned"} -> <<10, 30>>
      [] state \in {"Cursed", "Hidden"} -> <<5, 15>>
      [] state = "Struggling" -> <<30, 50>>
      [] state = "Sacred" -> <<50, 100>>
      [] state = "Thriving" -> <<20, 40>>

\* the half-open range the size is drawn from, by state
SizeRange(state) ==
    CASE state \in {"Ruins", "Abandoned"} -> <<10, 30>>
      [] state \in {"Cursed", "Hidden"} -> <<5, 15>>
      [] state = "Struggling" -> <<30, 50>>
      [] state = "Sacred" -> <<20, 40>>
      [] state = "Thriving" -> <<50, 100>>

\* a plausible slip: the band of Struggling reaches into that of Thriving
SizeOfWide(state, u) ==
    IF state = "Struggling" THEN GenRange(u, 30, 60)
    ELSE GenRange(u, SizeRange(state)[1], SizeRange(state)[2])

\* the size drawn for a state: gen_range over the state's range
SizeOf(state, u) == GenRange(u, SizeRange(state)[1], SizeRange(state)[2])

\* terrains whose species is chosen by a coin flip
SpeciesDraws(terrain) == terrain \in {"Plains", "Forest", "Mountains", "Desert"}

SpeciesOf(terrain, heads) ==
    CASE terrain \in {"Plains", "Forest"} -> IF heads THEN "Human" ELSE "Elf"
      [] terrain = "Mountains" -> IF heads THEN "Bear" ELSE "Ghost"
      [] terrain = "Desert" -> IF heads THEN "Cat" ELSE "Rat"
      [] terrain = "Jungle" -> "Bee"
      [] terrain = "Snow" -> "Ghost"
      [] terrain = "Swamp" -> "Rat"
      [] OTHER -> "Human"

\* terrains whose industry table draws from the stream
IndustryDraws(terrain) ==
    terrain \in {"Plains", "Forest", "Mountains", "Desert", "Jungle", "Snow", "Swamp"}

\* the industry chosen from the terrain's table (a local of generate_location)
IndustryOf(terrain, u) ==
    CASE terrain = "Plains" -> IF GenBool(u, 70) THEN "Farming" ELSE "Trading"
      [] terrain = "Forest" -> IF GenBool(u, 60) THEN "Lumber" ELSE "Hunting"
      [] terrain = "Mountains" -> IF GenBool(u, 80) THEN "Mining" ELSE "Crafting"
      [] terrain = "Desert" -> IF GenBool(u, 70) THEN "Trading" ELSE "Mining"
      [] terrain = "Jungle" -> IF GenBool(u, 60) THEN "Hunting" ELSE "Foraging"
      [] terrain = "Snow" -> IF GenBool(u, 70) THEN "Hunting" ELSE "Crafting"
      [] terrain = "Swamp" -> IF GenBool(u, 60) THEN "Foraging" ELSE "Fishing"
      [] OTHER -> "Trading"

\* generate_location: the settlement and the stream state after its draws
generate_location(st0, terrain) ==
    LET st1 == IF SpeciesDraws(terrain) THEN RngNext(st0) ELSE st0
        species == SpeciesOf(terrain, GenBool(RngRaw(st1), 50))
        st2 == RngNext(st1)
        state == StateOfRoll(GenRange(RngRaw(st2), 0, 100))
        st3 == RngNext(st2)
        size == SizeOf(state, RngRaw(st3))
        st4 == IF IndustryDraws(terrain) THEN RngNext(st3) ELSE st3
        industry == IndustryOf(terrain, RngRaw(st4))
    IN  [location |-> [name |-> "Settlement", species |-> species, state |-> state,
                       size |-> size, governance |-> "Democracy",
                       industry |-> "Farming"],
         rng |-> st4]

\* ------------------------------------------------------------------------
\* LocationMap
\* ------------------------------------------------------------------------
LocationTileType ==
    {"Ground", "Wall", "Water", "HumanRoad", "ElfPath", "OrcTrail", "HumanHouse",
     "ElfTreehouse", "OrcHut", "Trading", "Shrine"}

\* tiles are kept row-major: tiles[y][x] is element y * width + x + 1
Idx(w, x, y) == y * w + x + 1

TypeAt(map, x, y) == map.tiles[Idx(map.width, x, y)].tile_type

\* LocationMap::is_walkable
is_walkable(map, x, y) ==
    TypeAt(map, x, y) \notin {"Wall", "HumanHouse", "ElfTreehouse", "OrcHut"}

\* the least element of a non-empty set of numbers
Least(S) == CHOOSE k \in S : \A j \in S : k <= j

\* the square of one radius, scanned dy then dx with clamped coordinates:
\* the k-th tile visited is offset (k % n - radius, k \div n - radius)
RingX(map, radius, k) ==
    Clamp(map.width \div 2 + (k % (2 * radius + 1)) - radius, 0, map.width - 1)
RingY(map, radius, k) ==
    Clamp(map.height \div 2 + (k \div (2 * radius + 1)) - radius, 0, map.height - 1)

\* the search around the centre, radius 0..4: <<position>> for the first
\* walkable tile visited, <<>> for none
RECURSIVE RingSearch(_, _)
RingSearch(map, radius) ==
    IF radius >= 5 THEN <<>>
    ELSE LET n == 2 * radius + 1
             hits == {k \in 0..(n * n - 1) :
                         is_walkable(map, RingX(map, radius, k), RingY(map, radius, k))}
         IN  IF hits # {}
             THEN << [x |-> RingX(map, radius, Least(hits)),
                      y |-> RingY(map, radius, Least(hits))] >>
             ELSE RingSearch(map, radius + 1)

\* the raster scan, rows then columns: the first walkable tile
RasterSearch(map) ==
    LET hits == {i \in 0..(map.width * map.height - 1) :
                    is_walkable(map, i % map.width, i \div map.width)}
    IN  IF hits # {}
        THEN << [x |-> Least(hits) % map.width, y |-> Least(hits) \div map.width] >>
        ELSE <<>>

\* a plausible slip: no raster scan after the search around the centre
find_spawn_position_no_scan(map) ==
    LET near == RingSearch(map, 0)
    IN  IF near # <<>> THEN near[1] ELSE [x |-> 1, y |-> 1]

\* LocationMap::find_spawn_position
find_spawn_position(map) ==
    LET near == RingSearch(map, 0)
        any == RasterSearch(map)
    IN  IF near # <<>> THEN near[1]
        ELSE IF any # <<>> THEN any[1]
        ELSE [x |-> 1, y |-> 1]

\* ------------------------------------------------------------------------
\* LocationGenerator.  A generator value g is [map, rng, ok]: the map being
\* built, the stream, and ok = FALSE once a step has panicked.
\* ------------------------------------------------------------------------
GroundTile == [blocked |-> FALSE, tile_type |-> "Ground", feature |-> <<>>]

create_empty_map(w, h) ==
    [width |-> w, height |-> h, tiles |-> [i \in 1..(w * h) |-> GroundTile],
     points_of_interest |-> <<>>]

SetType(g, x, y, t) ==
    [g EXCEPT !.map.tiles[Idx(g.map.width, x, y)].tile_type = t]

\* (n as f32).sqrt() as i32
SqrtFloor(n) == CHOOSE r \in 0..n : r * r <= n /\ (r + 1) * (r + 1) > n

\* a plausible slip: the variance is drawn from -3..=3
determine_map_size_wide(st0, size) ==
    LET base_size == SqrtFloor(size)
        st1 == RngNext(st0)
        size_variance == GenRangeIncl(RngRaw(st1), 0 - 3, 3)
        sz == Max(base_size + size_variance, 5)
    IN  [width |-> sz * 2, height |-> sz * 2, rng |-> st1]

\* determine_map_size: <<width, height>> and the stream after the draw
determine_map_size(st0, size) ==
    LET base_size == SqrtFloor(size)
        st1 == RngNext(st0)
        size_variance == GenRangeIncl(RngRaw(st1), 0 - 2, 2)
        sz == Max(base_size + size_variance, 5)
    IN  [width |-> sz * 2, height |-> sz * 2, rng |-> st1]

get_feature_name(feature_type) ==
    CASE feature_type = "Market" -> "Town Market"
      [] feature_type = "Temple" -> "Sacred Temple"
      [] feature_type = "Tavern" -> "The Wanderer's Rest"
      [] feature_type = "Garden" -> "Natural Garden"
      [] OTHER -> "Feature"

place_feature(g, pos, feature_type) ==
    IF pos.x < g.map.width /\ pos.y < g.map.height
    THEN LET feature == [name |-> get_feature_name(feature_type),
                         feature_type |-> feature_type]
         IN  [g EXCEPT !.map.tiles[Idx(g.map.width, pos.x, pos.y)].feature = <<feature>>,
                       !.map.points_of_interest =
                           Append(@, [position |-> pos, feature |-> feature])]
    ELSE g

\* a `for i in lo..hi` loop whose body is Body(g, i): the range is run in two
\* halves, one after the other; a panic (ok = FALSE) ends the loop
RECURSIVE ForRange(_, _, _, _)
ForRange(Body(_, _), g, lo, hi) ==
    IF lo >= hi THEN g
    ELSE IF hi = lo + 1 THEN Body(g, lo)
    ELSE LET mid == (lo + hi) \div 2
             first == ForRange(Body, g, lo, mid)
         IN  IF first.ok THEN ForRange(Body, first, mid, hi) ELSE first

\* for i in from..to-1: tile (i, row) or (col, i) becomes t
FillRow(g, y, from, to, t) ==
    [g EXCEPT !.map.tiles = [k \in DOMAIN @ |->
        IF k \in {Idx(g.map.width, i, y) : i \in from..(to - 1)}
        THEN [@[k] EXCEPT !.tile_type = t]
        ELSE @[k]]]

FillColumn(g, x, from, to, t) ==
    [g EXCEPT !.map.tiles = [k \in DOMAIN @ |->
        IF k \in {Idx(g.map.width, x, i) : i \in from..(to - 1)}
        THEN [@[k] EXCEPT !.tile_type = t]
        ELSE @[k]]]

\* a plausible slip: the vertical move is left out
BranchMoveHorizontal(walk, toward_x) ==
    LET g1 == SetType(walk.g, walk.x, walk.y, "HumanRoad")
        target_x == walk.g.map.width \div 2
    IN  [g |-> g1,
         x |-> IF walk.x < target_x THEN walk.x + 1
               ELSE IF walk.x > target_x THEN walk.x - 1 ELSE walk.x,
         y |-> walk.y]

\* create_branching_road, the body of the loop: the tile becomes road, then
\* one move along the axis gen_bool(0.7) chose; the walk is [g, x, y]
BranchMove(walk, toward_x) ==
    LET g1 == SetType(walk.g, walk.x, walk.y, "HumanRoad")
        target_x == walk.g.map.width \div 2
        target_y == walk.g.map.height \div 2
    IN  IF toward_x
        THEN [g |-> g1,
              x |-> IF walk.x < target_x THEN walk.x + 1
                    ELSE IF walk.x > target_x THEN walk.x - 1 ELSE walk.x,
              y |-> walk.y]
        ELSE [g |-> g1,
              x |-> walk.x,
              y |-> IF walk.y < target_y THEN walk.y + 1
                    ELSE IF walk.y > target_y THEN walk.y - 1 ELSE walk.y]

\* create_branching_road, one turn of the loop: nothing happens once (x, y)
\* is the centre
BranchStep(walk) ==
    IF walk.x = walk.g.map.width \div 2 /\ walk.y = walk.g.map.height \div 2 THEN walk
    ELSE LET st1 == RngNext(walk.g.rng)
         IN  BranchMove([walk EXCEPT !.g.rng = st1], GenBool(RngRaw(st1), 70))

\* n turns of the loop, run in two halves
RECURSIVE BranchSteps(_, _)
BranchSteps(walk, n) ==
    IF n <= 1 THEN BranchStep(walk)
    ELSE LET first == BranchSteps(walk, n \div 2)
         IN  IF first.g.ok THEN BranchSteps(first, n - n \div 2) ELSE first

\* the loop runs until the walk is at the centre, n turns at a time
RECURSIVE BranchWalk(_, _)
BranchWalk(walk, n) ==
    LET after == BranchSteps(walk, n)
    IN  IF ~after.g.ok
           \/ (after.x = after.g.map.width \div 2 /\ after.y = after.g.map.height \div 2)
        THEN after
        ELSE BranchWalk(after, n)

\* create_branching_road: the walk from start towards the centre
create_branching_road(g, cx, cy) == BranchWalk([g |-> g, x |-> cx, y |-> cy], 32).g

\* one branch: its start is drawn on the top or the bottom edge
BranchRoad(g) ==
    LET st1 == RngNext(g.rng)
        start_x == GenRange(RngRaw(st1), 0, g.map.width)
        st2 == RngNext(st1)
        start_y == IF GenBool(RngRaw(st2), 50) THEN 0 ELSE g.map.height - 1
    IN  create_branching_road([g EXCEPT !.rng = st2], start_x, start_y)

BranchRoads(g, n) == ForRange(LAMBDA acc, i : BranchRoad(acc), g, 0, n)

generate_road_network(g) ==
    LET mid_y == g.map.height \div 2
        mid_x == g.map.width \div 2
        east_west == FillRow(g, mid_y, 0, g.map.width, "HumanRoad")
        north_south == FillColumn(east_west, mid_x, 0, g.map.height, "HumanRoad")
        st1 == RngNext(g.rng)
        num_branches == GenRangeIncl(RngRaw(st1), 2, 4)
    IN  BranchRoads([north_south EXCEPT !.rng = st1], num_branches)

place_central_features(g) ==
    LET center_x == g.map.width \div 2
        center_y == g.map.height \div 2
        market == place_feature(g, [x |-> center_x, y |-> center_y], "Market")
        st1 == RngNext(g.rng)
        temple_x == Clamp(center_x + GenRangeIncl(RngRaw(st1), 0 - 2, 2), 0, g.map.width - 1)
        st2 == RngNext(st1)
        temple_y == Clamp(center_y + GenRangeIncl(RngRaw(st2), 0 - 2, 2), 0, g.map.height - 1)
        temple == place_feature(market, [x |-> temple_x, y |-> temple_y], "Temple")
        st3 == RngNext(st2)
        tavern_x == Clamp(center_x + GenRangeIncl(RngRaw(st3), 0 - 3, 3), 0, g.map.width - 1)
        st4 == RngNext(st3)
        tavern_y == Clamp(center_y + GenRangeIncl(RngRaw(st4), 0 - 3, 3), 0, g.map.height - 1)
        tavern == place_feature(temple, [x |-> tavern_x, y |-> tavern_y], "Tavern")
    IN  [tavern EXCEPT !.rng = st4]

Directions ==
    << <<0, 1>>, <<1, 0>>, <<0, 0 - 1>>, <<0 - 1, 0>>,
       <<1, 1>>, <<1, 0 - 1>>, <<0 - 1, 1>>, <<0 - 1, 0 - 1>> >>

\* a plausible slip: the test for a road beside the tile is left out
is_adjacent_to_road_any(map, x, y) == TRUE

is_adjacent_to_road(map, x, y) ==
    \E k \in 1..Len(Directions) :
        TypeAt(map, Clamp(x + Directions[k][1], 0, map.width - 1),
                    Clamp(y + Directions[k][2], 0, map.height - 1)) = "HumanRoad"

\* the body of place_houses for one tile
PlaceHouseAt(g, x, y) ==
    IF TypeAt(g.map, x, y) = "Ground" /\ is_adjacent_to_road(g.map, x, y)
    THEN LET st1 == RngNext(g.rng)
         IN  IF GenBool(RngRaw(st1), 30)
             THEN LET house == [SetType(g, x, y, "HumanHouse") EXCEPT !.rng = st1]
                      st2 == RngNext(st1)
                      st3 == RngNext(st2)
                  IN  IF GenBool(RngRaw(st2), 10)
                      THEN [place_feature(house, [x |-> x, y |-> y],
                                IF GenBool(RngRaw(st3), 50) THEN "Blacksmith" ELSE "Storage")
                            EXCEPT !.rng = st3]
                      ELSE [house EXCEPT !.rng = st2]
             ELSE [g EXCEPT !.rng = st1]
    ELSE g

\* place_houses, the inner loop: for x in 1..width-1
PlaceHousesInRow(g, y) ==
    ForRange(LAMBDA acc, x : PlaceHouseAt(acc, x, y), g, 1, g.map.width - 1)

\* place_houses: for y in 1..height-1
place_houses(g) ==
    ForRange(LAMBDA acc, y : PlaceHousesInRow(acc, y), g, 1, g.map.height - 1)

\* the gates of add_walls: a road tile on the centre row opens both
\* horizontal walls in its column
GateInColumn(g, x, wall_distance) ==
    IF TypeAt(g.map, x, g.map.height \div 2) = "HumanRoad"
    THEN SetType(SetType(g, x, wall_distance, "HumanRoad"),
                 x, g.map.height - wall_distance - 1, "HumanRoad")
    ELSE g

GatesByColumn(g, wall_distance) ==
    ForRange(LAMBDA acc, x : GateInColumn(acc, x, wall_distance), g, 0, g.map.width)

\* a road tile on the centre column opens both vertical walls in its row
GateInRow(g, y, wall_distance) ==
    IF TypeAt(g.map, g.map.width \div 2, y) = "HumanRoad"
    THEN SetType(SetType(g, wall_distance, y, "HumanRoad"),
                 g.map.width - wall_distance - 1, y, "HumanRoad")
    ELSE g

GatesByRow(g, wall_distance) ==
    ForRange(LAMBDA acc, y : GateInRow(acc, y, wall_distance), g, 0, g.map.height)

RingWalls(g, wall_distance) ==
    LET top == FillRow(g, wall_distance, wall_distance, g.map.width - wall_distance, "Wall")
        bottom == FillRow(top, g.map.height - wall_distance - 1, wall_distance,
                          g.map.width - wall_distance, "Wall")
        left == FillColumn(bottom, wall_distance, wall_distance,
                           g.map.height - wall_distance, "Wall")
    IN  FillColumn(left, g.map.width - wall_distance - 1, wall_distance,
                   g.map.height - wall_distance, "Wall")

\* a plausible slip: the walls are laid and no gate is opened
add_walls_no_gates(g) == RingWalls(g, 3)

add_walls(g) == GatesByRow(GatesByColumn(RingWalls(g, 3), 3), 3)

\* the steps of a generator run one after the other: Step acts on the
\* generator the steps before it left
AndThen(g, Step(_)) == IF g.ok THEN Step(g) ELSE g

generate_human_settlement(g) ==
    LET roads == AndThen(g, generate_road_network)
        central == AndThen(roads, place_central_features)
        built == AndThen(central, place_houses)
    IN  IF g.location.size > 50 THEN AndThen(built, add_walls) ELSE built

generate_basic_settlement(g) ==
    AndThen(AndThen(g, generate_road_network), place_central_features)

\* OpenSimplex of the `noise` crate, values in [-1000, 1000]
OpenSimplex(s, X, Y) ==
    (((s + 5) * 271 + (X % 1013) * 19 + (Y % 1009) * 23 + ((X % 89) * (Y % 97)) * 3) % 2001) - 1000

generate_natural_paths(g) ==
    LET st1 == RngNext(g.rng)
        noise_seed == GenRangeIncl(RngRaw(st1), 0, I32Mod - 1)
        w == g.map.width
    IN  [g EXCEPT !.rng = st1,
                  !.map.tiles = [i \in DOMAIN @ |->
                      IF OpenSimplex(noise_seed, ((i - 1) % w) * 1000, ((i - 1) \div w) * 1000) > 700
                      THEN [@[i] EXCEPT !.tile_type = "ElfPath"]
                      ELSE @[i]]]

\* one treehouse of a cluster
ClusterHouse(g, center_x, center_y) ==
    LET st1 == RngNext(g.rng)
        offset_x == GenRangeIncl(RngRaw(st1), 0 - 2, 2)
        st2 == RngNext(st1)
        offset_y == GenRangeIncl(RngRaw(st2), 0 - 2, 2)
        pos_x == Clamp(center_x + offset_x, 0, g.map.width - 1)
        pos_y == Clamp(center_y + offset_y, 0, g.map.height - 1)
    IN  [SetType(g, pos_x, pos_y, "ElfTreehouse") EXCEPT !.rng = st2]

\* the treehouses of one cluster
ClusterHouses(g, center_x, center_y, n) ==
    ForRange(LAMBDA acc, i : ClusterHouse(acc, center_x, center_y), g, 0, n)

\* one cluster; gen_range(5..width-5) panics when the range is empty
Cluster(g) ==
    IF 5 >= g.map.width - 5 \/ 5 >= g.map.height - 5 THEN [g EXCEPT !.ok = FALSE]
    ELSE LET st1 == RngNext(g.rng)
             center_x == GenRange(RngRaw(st1), 5, g.map.width - 5)
             st2 == RngNext(st1)
             center_y == GenRange(RngRaw(st2), 5, g.map.height - 5)
             st3 == RngNext(st2)
             num_houses == GenRangeIncl(RngRaw(st3), 3, 6)
         IN  ClusterHouses([g EXCEPT !.rng = st3], center_x, center_y, num_houses)

Clusters(g, n) == ForRange(LAMBDA acc, i : Cluster(acc), g, 0, n)

place_treehouses(g) ==
    LET st1 == RngNext(g.rng)
        num_clusters == GenRangeIncl(RngRaw(st1), 3, 5)
    IN  Clusters([g EXCEPT !.rng = st1], num_clusters)

is_near_feature(map, pos, distance) ==
    \E k \in 1..Len(map.points_of_interest) :
        /\ Abs(pos.x - map.points_of_interest[k].position.x) <= distance
        /\ Abs(pos.y - map.points_of_interest[k].position.y) <= distance

\* one garden of place_nature_features
Garden(g) ==
    LET st1 == RngNext(g.rng)
        x == GenRange(RngRaw(st1), 0, g.map.width)
        st2 == RngNext(st1)
        y == GenRange(RngRaw(st2), 0, g.map.height)
    IN  place_feature([g EXCEPT !.rng = st2], [x |-> x, y |-> y], "Garden")

Gardens(g, n) == ForRange(LAMBDA acc, i : Garden(acc), g, 0, n)

\* one shrine: placed when no feature is within 5 tiles
Shrine(g) ==
    LET st1 == RngNext(g.rng)
        x == GenRange(RngRaw(st1), 0, g.map.width)
        st2 == RngNext(st1)
        y == GenRange(RngRaw(st2), 0, g.map.height)
        g2 == [g EXCEPT !.rng = st2]
    IN  IF ~is_near_feature(g2.map, [x |-> x, y |-> y], 5)
        THEN place_feature(g2, [x |-> x, y |-> y], "Temple")
        ELSE g2

Shrines(g, n) == ForRange(LAMBDA acc, i : Shrine(acc), g, 0, n)

place_nature_features(g) ==
    LET st1 == RngNext(g.rng)
        num_gardens == GenRangeIncl(RngRaw(st1), 3, 6)
        gardens == Gardens([g EXCEPT !.rng = st1], num_gardens)
        st2 == RngNext(gardens.rng)
        num_shrines == GenRangeIncl(RngRaw(st2), 2, 4)
    IN  Shrines([gardens EXCEPT !.rng = st2], num_shrines)

generate_elf_settlement(g) ==
    LET paths == AndThen(g, generate_natural_paths)
        housed == AndThen(paths, place_treehouses)
    IN  AndThen(housed, place_nature_features)

\* LocationGenerator::new(seed, base_terrain, location).generate()
generate(s, base_terrain, location) ==
    LET dims == determine_map_size(SeedFromU64(s), location.size)
        g == [map |-> create_empty_map(dims.width, dims.height), rng |-> dims.rng,
              ok |-> TRUE, base_terrain |-> base_terrain, location |-> location]
    IN  CASE location.species = "Human" -> generate_human_settlement(g)
          [] location.species = "Elf" -> generate_elf_settlement(g)
          [] OTHER -> generate_basic_settlement(g)

\* ------------------------------------------------------------------------
\* State
\* ------------------------------------------------------------------------
VARIABLES
    seed, width, height,      \* the arguments of World::new
    rng, river_mouths,        \* WorldGenerator: the stream and the river list
    gpc, grid,                \* WorldGenerator::generate: position, tiles built so far
    world,                    \* the World handed to the game
    prev_world, prev_rivers,  \* the World and river list of the previous World::new
    runs,                     \* calls of World::new completed
    phase, world_pos, local_pos, location_map,   \* Game, Player
    steps,                    \* inputs handled so far
    entries,                  \* the settlements entered so far: tile, map, spawn
    census,                   \* the species met in the worlds generated so far
    call                      \* a direct call of a query: operation, arguments, results

vars == <<seed, width, height, rng, river_mouths, gpc, grid, world, prev_world,
          prev_rivers, runs, phase, world_pos, local_pos, location_map, steps, entries,
          census, call>>

genVars == <<rng, river_mouths, gpc, grid>>
gameVars == <<phase, world_pos, local_pos, location_map, steps>>
inputVars == <<seed, width, height, call>>
histVars == <<prev_world, prev_rivers, runs, entries, census>>

NoWorld == [seed |-> 0, width |-> 0, height |-> 0, wraparound |-> FALSE, tiles |-> <<>>]
NoMap == [width |-> 0, height |-> 0, tiles |-> <<>>, points_of_interest |-> <<>>]
NoCall == [op |-> "none", arg |-> <<>>, ret |-> <<>>]

TileAt(wd, x, y) == wd.tiles[Idx(wd.width, x, y)]
Cells(wd) == {p \in (0..(wd.width - 1)) \X (0..(wd.height - 1)) : TRUE}

Init ==
    /\ seed \in Seeds
    /\ \E d \in WorldDims : width = d[1] /\ height = d[2]
    /\ rng = 0
    /\ river_mouths = <<>>
    /\ gpc = "idle"
    /\ grid = <<>>
    /\ world = NoWorld
    /\ prev_world = NoWorld
    /\ prev_rivers = <<>>
    /\ runs = 0
    /\ phase = "Menu"
    /\ world_pos = [x |-> 0, y |-> 0]
    /\ local_pos = [x |-> 0, y |-> 0]
    /\ location_map = NoMap
    /\ steps = 0
    /\ entries = <<>>
    /\ census = {}
    /\ call = NoCall

\* ------------------------------------------------------------------------
\* World::new / WorldGenerator
\* ------------------------------------------------------------------------
\* a generator that keeps the stream of the previous run
WorldGeneratorNewStale ==
    /\ phase = "Menu"
    /\ gpc \in {"idle", "done"}
    /\ runs < 2
    /\ rng' = IF runs = 0 THEN SeedFromU64(seed) ELSE rng
    /\ river_mouths' = <<>>
    /\ grid' = <<>>
    /\ gpc' = "fields"
    /\ prev_world' = world
    /\ prev_rivers' = river_mouths
    /\ UNCHANGED <<inputVars, world, runs, entries, census, gameVars>>

\* the ways the crate is built: with overflow checks (debug) or without
Builds == {"debug", "release"}

\* World::new calls WorldGenerator::new: fresh noise fields and a fresh stream.
\* The field seeds seed + 1 .. seed + 4 are u32 sums: past the largest u32 a
\* build with overflow checks panics, a build without them wraps.
WorldGeneratorNew ==
    /\ phase = "Menu"
    /\ gpc \in {"idle", "done"}
    /\ runs < 2
    /\ \E build \in Builds :
        IF seed + 4 >= I32Mod /\ build = "debug"
        THEN /\ gpc' = "panicked"
             /\ UNCHANGED <<rng, river_mouths, grid, prev_world, prev_rivers>>
        ELSE /\ rng' = SeedFromU64(seed)
             /\ river_mouths' = <<>>
             /\ grid' = <<>>
             /\ gpc' = "fields"
             /\ prev_world' = world
             /\ prev_rivers' = river_mouths
    /\ UNCHANGED <<inputVars, world, runs, entries, census, gameVars>>

\* the river cells in the order the closure pushes them: row by row
RECURSIVE RiverCellsInRow(_, _, _, _)
RiverCellsInRow(s, w, x, y) ==
    IF x >= w THEN <<>>
    ELSE (IF RiverMap(s, x, y) THEN << <<x, y>> >> ELSE <<>>)
         \o RiverCellsInRow(s, w, x + 1, y)

RECURSIVE RiverCells(_, _, _, _)
RiverCells(s, w, h, y) ==
    IF y >= h THEN <<>>
    ELSE RiverCellsInRow(s, w, 0, y) \o RiverCells(s, w, h, y + 1)

\* dump_noise_png(grid, path): writes the grid to an image file and returns
\* a Result; the outcome is the file system's
dump_noise_png == {"Ok", "Err"}

\* generate, steps 1-3: height map, base terrain, river map; both grids are
\* dumped to image files and `expect` panics when a dump fails
GenerateFields ==
    /\ gpc = "fields"
    /\ \E heightmap \in dump_noise_png, river_map \in dump_noise_png :
        /\ river_mouths' = IF heightmap = "Ok"
                           THEN river_mouths \o RiverCells(seed, width, height, 0)
                           ELSE river_mouths
        /\ gpc' = IF heightmap = "Ok" /\ river_map = "Ok" THEN "tiles" ELSE "panicked"
    /\ UNCHANGED <<inputVars, rng, grid, world, histVars, gameVars>>

\* a plausible slip: only water blocks
BlockedWaterOnly(final_terrain) == final_terrain = "Water"

\* matches!(final_terrain, Water | Mountains)
Blocked(final_terrain) == final_terrain \in {"Water", "Mountains"}

\* a plausible slip: a river does not cut through mountains
FinalTerrainKeepMountains(river, terrain) ==
    IF river /\ terrain # "Mountains" THEN "Water" ELSE terrain

FinalTerrain(river, terrain) == IF river THEN "Water" ELSE terrain

\* a plausible slip: the roll is drawn before the blocked test
ConvertCellAlwaysRolls ==
    /\ gpc = "tiles"
    /\ Len(grid) < width * height
    /\ LET x == Len(grid) % width
           y == Len(grid) \div width
           final_terrain == FinalTerrain(RiverMap(seed, x, y), TerrainMap(seed, height, x, y))
           blocked == Blocked(final_terrain)
           st1 == RngNext(rng)
           roll == RngRaw(st1)
           made == generate_location(st1, final_terrain)
           location == IF ~blocked /\ roll < 5 THEN <<made.location>> ELSE <<>>
       IN  /\ rng' = IF ~blocked /\ roll < 5 THEN made.rng ELSE st1
           /\ grid' = Append(grid, [height |-> Heights(seed, x, y),
                                    terrain |-> final_terrain,
                                    location |-> location,
                                    blocked |-> blocked,
                                    seen |-> FALSE])
    /\ UNCHANGED <<inputVars, river_mouths, gpc, world, histVars, gameVars>>

\* convert_terrain_to_tiles, the closure for one cell
ConvertCell ==
    /\ gpc = "tiles"
    /\ Len(grid) < width * height
    /\ LET x == Len(grid) % width
           y == Len(grid) \div width
           final_terrain == FinalTerrain(RiverMap(seed, x, y), TerrainMap(seed, height, x, y))
           blocked == Blocked(final_terrain)
           st1 == RngNext(rng)
           roll == RngRaw(st1)
           made == generate_location(st1, final_terrain)
           location == IF ~blocked /\ roll < 5 THEN <<made.location>> ELSE <<>>
       IN  /\ rng' = IF blocked THEN rng ELSE IF roll < 5 THEN made.rng ELSE st1
           /\ grid' = Append(grid, [height |-> Heights(seed, x, y),
                                    terrain |-> final_terrain,
                                    location |-> location,
                                    blocked |-> blocked,
                                    seen |-> FALSE])
    /\ UNCHANGED <<inputVars, river_mouths, gpc, world, histVars, gameVars>>

\* generate, step 5: draw the world's seed and package the World
PackageWorld ==
    /\ gpc = "tiles"
    /\ Len(grid) = width * height
    /\ LET st1 == RngNext(rng)
           st2 == RngNext(st1)
           combined_seed == NextU32(st1) * I32Mod + NextU32(st2)
       IN  /\ rng' = st2
           /\ world' = [seed |-> combined_seed, width |-> width, height |-> height,
                        wraparound |-> TRUE, tiles |-> grid]
    /\ gpc' = "done"
    /\ runs' = runs + 1
    /\ UNCHANGED <<inputVars, river_mouths, grid, prev_world, prev_rivers, entries,
                   census, gameVars>>

\* ------------------------------------------------------------------------
\* World queries and the visibility overlay
\* ------------------------------------------------------------------------
\* a plausible slip: the modulus is one short
get_wrapped_coordinates_short(wd, position) ==
    IF wd.wraparound
    THEN [x |-> AsUsize(RemEuclid(AsI32(position.x), Max(AsI32(wd.width) - 1, 1))),
          y |-> AsUsize(RemEuclid(AsI32(position.y), Max(AsI32(wd.height) - 1, 1)))]
    ELSE [x |-> Clamp(position.x, 0, wd.width - 1),
          y |-> Clamp(position.y, 0, wd.height - 1)]

\* a plausible slip: `%` in place of rem_euclid
get_wrapped_coordinates_rem(wd, position) ==
    IF wd.wraparound
    THEN [x |-> AsUsize(RustRem(AsI32(position.x), AsI32(wd.width))),
          y |-> AsUsize(RustRem(AsI32(position.y), AsI32(wd.height)))]
    ELSE [x |-> Clamp(position.x, 0, wd.width - 1),
          y |-> Clamp(position.y, 0, wd.height - 1)]

\* World::get_wrapped_coordinates
get_wrapped_coordinates(wd, position) ==
    IF wd.wraparound
    THEN [x |-> AsUsize(RemEuclid(AsI32(position.x), AsI32(wd.width))),
          y |-> AsUsize(RemEuclid(AsI32(position.y), AsI32(wd.height)))]
    ELSE [x |-> Clamp(position.x, 0, wd.width - 1),
          y |-> Clamp(position.y, 0, wd.height - 1)]

\* World::get_valid_position: <<position>> or <<>>
get_valid_position(wd, pos) ==
    IF wd.wraparound THEN << [x |-> pos.x % wd.width, y |-> pos.y % wd.height] >>
    ELSE IF pos.x < wd.width /\ pos.y < wd.height THEN <<pos>>
    ELSE <<>>

\* a plausible slip: a later tile at the same distance replaces the best one
CloserOrEqual(dist, best_dist) == dist <= best_dist

\* the guard `dist < best_dist` of find_nearest_species
Closer(dist, best_dist) == dist < best_dist

\* find_nearest_species: the scan of the tiles in row-major order; closest is
\* the best (position, distance) found so far
RECURSIVE ScanNearest(_, _, _, _, _, _)
ScanNearest(wd, sx, sy, target_species, i, closest) ==
    IF i > wd.width * wd.height THEN closest
    ELSE LET x == (i - 1) % wd.width
             y == (i - 1) \div wd.width
             tile == wd.tiles[i]
             dx == AsI32(sx - AsI32(x))
             dy == AsI32(sy - AsI32(y))
             dist == AsI32(Abs(dx) + Abs(dy))
             hit == tile.location # <<>> /\ tile.location[1].species = target_species
             better == closest = <<>> \/ Closer(dist, closest[1].dist)
         IN  ScanNearest(wd, sx, sy, target_species, i + 1,
                         IF hit /\ better
                         THEN << [pos |-> [x |-> x, y |-> y], dist |-> dist] >>
                         ELSE closest)

find_nearest_species(wd, start, target_species) ==
    LET closest == ScanNearest(wd, AsI32(start.x), AsI32(start.y), target_species,
                               1, <<>>)
    IN  IF closest = <<>> THEN <<>> ELSE << closest[1].pos >>

\* a plausible slip: the rim of the disc left out
InRadiusStrict(dx, dy, radius) == dx * dx + dy * dy < radius * radius

\* the circular mask of update_visibility
InRadius(dx, dy, radius) == dx * dx + dy * dy <= radius * radius

\* the positions update_visibility marks
Marked(wd, position, radius) ==
    LET px == AsI32(position.x)
        py == AsI32(position.y)
        offsets == {d \in ((0 - radius)..radius) \X ((0 - radius)..radius) :
                       InRadius(d[1], d[2], radius)}
        valid == {get_valid_position(wd, [x |-> AsUsize(px + d[1]),
                                          y |-> AsUsize(py + d[2])]) : d \in offsets}
    IN  {<<v[1].x, v[1].y>> : v \in {u \in valid : u # <<>>}}

\* a plausible slip: the overlay recomputed instead of accumulated
SeenAfterRecomputed(tile, marked) == [tile EXCEPT !.seen = marked]

\* self.tiles[y][x].seen = true, for a marked tile
SeenAfter(tile, marked) == IF marked THEN [tile EXCEPT !.seen = TRUE] ELSE tile

update_visibility(wd, position, radius) ==
    LET marked == Marked(wd, position, radius)
    IN  [wd EXCEPT !.tiles = [i \in DOMAIN @ |->
            SeenAfter(@[i], <<(i - 1) % wd.width, (i - 1) \div wd.width>> \in marked)]]

\* ------------------------------------------------------------------------
\* Game
\* ------------------------------------------------------------------------
Keys == {"Up", "Down", "Left", "Right"}

get_direction(key) ==
    CASE key = "Up" -> <<0, 0 - 1>>
      [] key = "Down" -> <<0, 1>>
      [] key = "Left" -> <<0 - 1, 0>>
      [] key = "Right" -> <<1, 0>>
      [] OTHER -> <<0, 0>>

is_in_bounds(x, y, w, h) == x >= 0 /\ y >= 0 /\ x < w /\ y < h

\* the game starts on the generated world, the player on an open tile
StartGame ==
    /\ phase = "Menu"
    /\ gpc = "done"
    /\ \E p \in Cells(world) :
        /\ ~TileAt(world, p[1], p[2]).blocked
        /\ world_pos' = [x |-> p[1], y |-> p[2]]
    /\ phase' = "PlayingWorld"
    /\ UNCHANGED <<inputVars, genVars, world, histVars, local_pos, location_map, steps>>

\* World::update(player_pos)
Update ==
    /\ phase \in {"PlayingWorld", "PlayingLocation"}
    /\ steps < MaxSteps
    /\ world' = update_visibility(world, world_pos, FOG_RADIUS)
    /\ steps' = steps + 1
    /\ UNCHANGED <<inputVars, genVars, histVars, phase, world_pos, local_pos,
                   location_map>>

\* a plausible slip: the blocked flag of the destination is not read
PassableAlways(wd, new_pos) == TRUE

\* handle_player_movement: the destination tile lets the player in
Passable(wd, new_pos) == ~TileAt(wd, new_pos.x, new_pos.y).blocked

\* handle_world_input, an arrow key: handle_player_movement
HandlePlayerMovement(key) ==
    /\ phase = "PlayingWorld"
    /\ steps < MaxSteps
    /\ LET d == get_direction(key)
           new_x == AsI32(world_pos.x) + d[1]
           new_y == AsI32(world_pos.y) + d[2]
           w == AsI32(world.width)
           h == AsI32(world.height)
           wrapped == IF world.wraparound
                      THEN <<RustRem(new_x + w, w), RustRem(new_y + h, h)>>
                      ELSE <<new_x, new_y>>
           new_pos == [x |-> AsUsize(wrapped[1]), y |-> AsUsize(wrapped[2])]
       IN  world_pos' =
               IF ~world.wraparound /\ ~is_in_bounds(new_x, new_y, w, h) THEN world_pos
               ELSE IF Passable(world, new_pos) THEN new_pos
               ELSE world_pos
    /\ steps' = steps + 1
    /\ UNCHANGED <<inputVars, genVars, world, histVars, phase, local_pos, location_map>>

\* a plausible slip: the generator's stream carries on from the inputs handled
EnterLocationUnseeded ==
    /\ phase = "PlayingWorld"
    /\ steps < MaxSteps
    /\ LET current_tile == TileAt(world, world_pos.x, world_pos.y)
       IN  IF current_tile.location = <<>>
           THEN UNCHANGED <<phase, location_map, local_pos, entries>>
           ELSE LET g == generate(world.seed + steps, current_tile.terrain,
                                  current_tile.location[1])
              IN  IF g.ok
                  THEN /\ location_map' = g.map
                       /\ local_pos' = find_spawn_position(g.map)
                       /\ phase' = "PlayingLocation"
                       /\ entries' = Append(entries,
                              [pos |-> world_pos, map |-> g.map,
                               spawn |-> find_spawn_position(g.map)])
                  ELSE /\ phase' = "Panicked"
                       /\ UNCHANGED <<location_map, local_pos, entries>>
    /\ steps' = steps + 1
    /\ UNCHANGED <<inputVars, genVars, world, prev_world, prev_rivers, runs, census,
                   world_pos>>

\* handle_world_input, 'e': Game::enter_location, which acts on a settlement tile
EnterLocation ==
    /\ phase = "PlayingWorld"
    /\ steps < MaxSteps
    /\ LET current_tile == TileAt(world, world_pos.x, world_pos.y)
       IN  IF current_tile.location = <<>>
           THEN UNCHANGED <<phase, location_map, local_pos, entries>>
           ELSE LET g == generate(world.seed, current_tile.terrain, current_tile.location[1])
              IN  IF g.ok
                  THEN /\ location_map' = g.map
                       /\ local_pos' = find_spawn_position(g.map)
                       /\ phase' = "PlayingLocation"
                       /\ entries' = Append(entries,
                              [pos |-> world_pos, map |-> g.map,
                               spawn |-> find_spawn_position(g.map)])
                  ELSE /\ phase' = "Panicked"
                       /\ UNCHANGED <<location_map, local_pos, entries>>
    /\ steps' = steps + 1
    /\ UNCHANGED <<inputVars, genVars, world, prev_world, prev_rivers, runs, census,
                   world_pos>>

\* a plausible slip: leaving copies the local position into the world position
ExitLocationAtLocal ==
    /\ phase = "PlayingLocation"
    /\ steps < MaxSteps
    /\ phase' = "PlayingWorld"
    /\ location_map' = NoMap
    /\ world_pos' = local_pos
    /\ steps' = steps + 1
    /\ UNCHANGED <<inputVars, genVars, world, histVars, local_pos>>

\* handle_location_input, 'q' or Esc: Game::exit_location
ExitLocation ==
    /\ phase = "PlayingLocation"
    /\ steps < MaxSteps
    /\ phase' = "PlayingWorld"
    /\ location_map' = NoMap
    /\ steps' = steps + 1
    /\ UNCHANGED <<inputVars, genVars, world, histVars, world_pos, local_pos>>

\* a plausible slip: the test of the movement names the houses of one species
MovementBlocksHumanOnly(tile_type) == tile_type \in {"Wall", "HumanHouse"}

\* handle_location_movement: the tile types that stop the player
MovementBlocks(tile_type) ==
    tile_type \in {"Wall", "HumanHouse", "ElfTreehouse", "OrcHut"}

\* handle_location_movement: the position of the player after the key
handle_location_movement(key, player_pos, map) ==
    LET d == get_direction(key)
        new_x == AsI32(player_pos.x) + d[1]
        new_y == AsI32(player_pos.y) + d[2]
    IN  IF d = <<0, 0>> THEN player_pos
        ELSE IF ~is_in_bounds(new_x, new_y, AsI32(map.width), AsI32(map.height))
        THEN player_pos
        ELSE IF MovementBlocks(TypeAt(map, new_x, new_y)) THEN player_pos
        ELSE [x |-> AsUsize(new_x), y |-> AsUsize(new_y)]

\* handle_location_input, an arrow key: handle_location_movement
HandleLocationMovement(key) ==
    /\ phase = "PlayingLocation"
    /\ steps < MaxSteps
    /\ local_pos' = handle_location_movement(key, local_pos, location_map)
    /\ steps' = steps + 1
    /\ UNCHANGED <<inputVars, genVars, world, histVars, phase, world_pos, location_map>>

\* handle_world_input, 'q'
Quit ==
    /\ phase = "PlayingWorld"
    /\ phase' = "GameOver"
    /\ UNCHANGED <<inputVars, genVars, world, histVars, world_pos, local_pos,
                   location_map, steps>>

Next ==
    \/ WorldGeneratorNew
    \/ GenerateFields
    \/ ConvertCell
    \/ PackageWorld
    \/ StartGame
    \/ Update
    \/ \E key \in Keys : HandlePlayerMovement(key)
    \/ EnterLocation
    \/ ExitLocation
    \/ \E key \in Keys : HandleLocationMovement(key)
    \/ Quit

Spec == Init /\ [][Next]_vars

\* ------------------------------------------------------------------------
\* Direct calls of World::get_wrapped_coordinates
\* ------------------------------------------------------------------------
MaxCoordDim == 6

\* usize inputs: small values, and values around the limits of i32 and usize
CoordValues ==
    (0..(MaxCoordDim + 2))
        \cup ((I32Mod \div 2 - 2)..(I32Mod \div 2 + 2))
        \cup ((I32Mod - 2)..(I32Mod + 2))
        \cup ((UsizeMod - 3)..(UsizeMod - 1))

OpenTile == [height |-> 600, terrain |-> "Plains", location |-> <<>>,
             blocked |-> FALSE, seen |-> FALSE]

Idle ==
    /\ seed = 0 /\ width = 0 /\ height = 0
    /\ rng = 0 /\ river_mouths = <<>> /\ gpc = "idle" /\ grid = <<>>
    /\ prev_world = NoWorld /\ prev_rivers = <<>> /\ runs = 0
    /\ world_pos = [x |-> 0, y |-> 0] /\ local_pos = [x |-> 0, y |-> 0]
    /\ location_map = NoMap /\ steps = 0 /\ entries = <<>> /\ census = {}

InitCoord ==
    /\ Idle
    /\ phase = "Menu"
    /\ \E w \in 1..MaxCoordDim, h \in 1..MaxCoordDim, wrap \in BOOLEAN :
        world = [seed |-> 0, width |-> w, height |-> h, wraparound |-> wrap,
                 tiles |-> [i \in 1..(w * h) |-> OpenTile]]
    /\ \E x \in CoordValues, y \in CoordValues :
        call = [op |-> "get_wrapped_coordinates", arg |-> << [x |-> x, y |-> y] >>,
                ret |-> <<>>]

\* the coordinates are wrapped, and the result is wrapped once more
WrapCoordinates ==
    /\ call.op = "get_wrapped_coordinates"
    /\ Len(call.ret) < 2
    /\ call' = [call EXCEPT !.ret =
           Append(@, get_wrapped_coordinates(world,
                         IF @ = <<>> THEN call.arg[1] ELSE @[Len(@)]))]
    /\ UNCHANGED <<seed, width, height, genVars, world, histVars, gameVars>>

NextCoord == WrapCoordinates

SpecCoord == InitCoord /\ [][NextCoord]_vars

\* ------------------------------------------------------------------------
\* Direct calls of LocationMap::find_spawn_position
\* ------------------------------------------------------------------------
MaxOdd == 2

SpawnDims == {<<1, 1>>, <<3, 2>>, <<10, 10>>, <<11, 10>>}

\* the tiles that may differ from the rest of the map: edges, centre
ProbeCells(w, h) ==
    {c \in ({0, 1, w \div 2, w - 1} \cap (0..(w - 1)))
            \X ({0, 1, h \div 2, h - 1} \cap (0..(h - 1))) : TRUE}

\* a map of one tile type, but for the tiles of odd
MapOf(w, h, fill, other, odd) ==
    [width |-> w, height |-> h,
     tiles |-> [i \in 1..(w * h) |->
                   [GroundTile EXCEPT !.tile_type =
                       IF <<(i - 1) % w, (i - 1) \div w>> \in odd THEN other ELSE fill]],
     points_of_interest |-> <<>>]

InitSpawn ==
    /\ Idle
    /\ phase = "Menu"
    /\ world = NoWorld
    /\ \E d \in SpawnDims,
          kinds \in {<<"Wall", "Ground">>, <<"HumanHouse", "HumanRoad">>,
                     <<"Ground", "Wall">>, <<"ElfPath", "ElfTreehouse">>} :
        \E odd \in SUBSET ProbeCells(d[1], d[2]) :
            /\ Cardinality(odd) <= MaxOdd
            /\ call = [op |-> "find_spawn_position",
                       arg |-> << MapOf(d[1], d[2], kinds[1], kinds[2], odd) >>,
                       ret |-> <<>>]

FindSpawnPosition ==
    /\ call.op = "find_spawn_position"
    /\ call.ret = <<>>
    /\ call' = [call EXCEPT !.ret = << find_spawn_position(call.arg[1]) >>]
    /\ UNCHANGED <<seed, width, height, genVars, world, histVars, gameVars>>

NextSpawn == FindSpawnPosition

SpecSpawn == InitSpawn /\ [][NextSpawn]_vars

\* ------------------------------------------------------------------------
\* Direct calls of World::find_nearest_species
\* ------------------------------------------------------------------------
MaxSettlements == 3

NearestDims == {<<3, 2>>, <<2, 3>>}

SettlementOf(species) ==
    [name |-> "Settlement", species |-> species, state |-> "Thriving", size |-> 60,
     governance |-> "Democracy", industry |-> "Farming"]

\* a world whose settlements are given by towns, a function from some of
\* its tile indexes to species
WorldOf(w, h, towns) ==
    [seed |-> 0, width |-> w, height |-> h, wraparound |-> TRUE,
     tiles |-> [i \in 1..(w * h) |->
                   IF i \in DOMAIN towns
                   THEN [OpenTile EXCEPT !.location = << SettlementOf(towns[i]) >>]
                   ELSE OpenTile]]

InitNearest ==
    /\ Idle
    /\ phase = "Menu"
    /\ \E d \in NearestDims :
        \E where \in SUBSET (1..(d[1] * d[2])) :
            /\ Cardinality(where) <= MaxSettlements
            /\ \E towns \in [where -> {"Human", "Elf"}] :
                   world = WorldOf(d[1], d[2], towns)
            /\ \E x \in 0..(d[1] + 1), y \in 0..(d[2] + 1),
                  species \in {"Human", "Elf"} :
                   call = [op |-> "find_nearest_species",
                           arg |-> << [x |-> x, y |-> y], species >>, ret |-> <<>>]

FindNearestSpecies ==
    /\ call.op = "find_nearest_species"
    /\ call.ret = <<>>
    /\ call' = [call EXCEPT !.ret =
                   << find_nearest_species(world, call.arg[1], call.arg[2]) >>]
    /\ UNCHANGED <<seed, width, height, genVars, world, histVars, gameVars>>

NextNearest == FindNearestSpecies

SpecNearest == InitNearest /\ [][NextNearest]_vars

\* ------------------------------------------------------------------------
\* Direct calls of WorldGenerator::determine_biome
\* ------------------------------------------------------------------------
BiomeMargin == 1

\* the ends of the unit interval and the values around the thresholds
Around(thresholds) ==
    {0, 1000} \cup UNION {(v - BiomeMargin)..(v + BiomeMargin) : v \in thresholds}

InitBiome ==
    /\ Idle
    /\ phase = "Menu"
    /\ world = NoWorld
    /\ \E h \in Around({OCEAN_LEVEL, 780}), t \in Around({250, 500}),
          m \in Around({400, 600}) :
        call = [op |-> "determine_biome", arg |-> <<h, t, m>>, ret |-> <<>>]

DetermineBiome ==
    /\ call.op = "determine_biome"
    /\ call.ret = <<>>
    /\ call' = [call EXCEPT !.ret =
                   << determine_biome(call.arg[1], call.arg[2], call.arg[3]) >>]
    /\ UNCHANGED <<seed, width, height, genVars, world, histVars, gameVars>>

NextBiome == DetermineBiome

SpecBiome == InitBiome /\ [][NextBiome]_vars

\* ------------------------------------------------------------------------
\* The temperature and the biome of the cells of the top and bottom rows
\* ------------------------------------------------------------------------
MaxMapHeight == 40

\* the ends and the middle of the range of the temperature noise
NoiseValues == {0 - 1000, 0, 1000}

InitClimate ==
    /\ Idle
    /\ phase = "Menu"
    /\ world = NoWorld
    /\ \E h \in 1..MaxMapHeight, y \in 0..(MaxMapHeight - 1), n \in NoiseValues,
          e \in {OCEAN_LEVEL, 780}, m \in {0, 500, 1000} :
        /\ y \in {0, h - 1}
        /\ call = [op |-> "get_temperature", arg |-> <<h, y, n, e, m>>, ret |-> <<>>]

\* the temperature of a cell of row y and the biome it is given
Classify ==
    /\ call.op = "get_temperature"
    /\ call.ret = <<>>
    /\ LET t == Blend(LatitudeFactor(call.arg[1], call.arg[2]), call.arg[3])
       IN  call' = [call EXCEPT !.ret =
                       <<t, determine_biome(call.arg[4], t, call.arg[5])>>]
    /\ UNCHANGED <<seed, width, height, genVars, world, histVars, gameVars>>

NextClimate == Classify

SpecClimate == InitClimate /\ [][NextClimate]_vars

\* ------------------------------------------------------------------------
\* create_branching_road turn by turn, for every outcome of gen_bool: call
\* holds the start and the current tile of the walk, location_map the map
\* ------------------------------------------------------------------------
MaxWalkHalf == 5

WalkSides == {2 * k : k \in 5..MaxWalkHalf}

\* the map with its two main roads, as generate_road_network has it when the
\* branches are drawn
MainRoads(side) ==
    LET g == [map |-> create_empty_map(side, side), rng |-> 0, ok |-> TRUE,
              base_terrain |-> "Plains",
              location |-> [species |-> "Human", size |-> 25]]
    IN  FillColumn(FillRow(g, side \div 2, 0, side, "HumanRoad"),
                   side \div 2, 0, side, "HumanRoad")

InitWalk ==
    /\ seed = 0 /\ width = 0 /\ height = 0
    /\ rng = 0 /\ river_mouths = <<>> /\ gpc = "idle" /\ grid = <<>>
    /\ prev_world = NoWorld /\ prev_rivers = <<>> /\ runs = 0
    /\ world = NoWorld /\ world_pos = [x |-> 0, y |-> 0] /\ local_pos = [x |-> 0, y |-> 0]
    /\ steps = 0 /\ entries = <<>> /\ census = {}
    /\ phase = "Menu"
    /\ \E side \in WalkSides, start_x \in 0..(2 * MaxWalkHalf - 1), bottom \in BOOLEAN :
        /\ start_x < side
        /\ location_map = MainRoads(side).map
        /\ LET start == [x |-> start_x, y |-> IF bottom THEN side - 1 ELSE 0]
           IN  call = [op |-> "create_branching_road", arg |-> <<start>>, ret |-> <<start>>]

\* the walk as the loop has it
CurrentWalk ==
    [g |-> [map |-> location_map, rng |-> 0, ok |-> TRUE, base_terrain |-> "Plains",
            location |-> [species |-> "Human", size |-> 25]],
     x |-> call.ret[1].x, y |-> call.ret[1].y]

AtCentre ==
    /\ call.ret[1].x = location_map.width \div 2
    /\ call.ret[1].y = location_map.height \div 2

\* one turn of the loop in which gen_bool(0.7) is toward_x
Turn(toward_x) ==
    /\ call.op = "create_branching_road"
    /\ ~AtCentre
    /\ LET after == BranchMove(CurrentWalk, toward_x)
       IN  /\ location_map' = after.g.map
           /\ call' = [call EXCEPT !.ret = << [x |-> after.x, y |-> after.y] >>]
    /\ UNCHANGED <<seed, width, height, genVars, world, histVars, phase, world_pos,
                   local_pos, steps>>

TurnHorizontal == Turn(TRUE)

TurnVertical == Turn(FALSE)

NextWalk == TurnHorizontal \/ TurnVertical

\* gen_bool(0.7) does not give the same answer for ever
SpecWalk ==
    InitWalk /\ [][NextWalk]_vars /\ WF_vars(TurnHorizontal) /\ WF_vars(TurnVertical)

\* ------------------------------------------------------------------------
\* The size draw of generate_location, for every state and every draw
\* ------------------------------------------------------------------------
RawDraws == 0..99

InitSize ==
    /\ Idle
    /\ phase = "Menu"
    /\ world = NoWorld
    /\ \E state \in LocationState, u \in RawDraws :
        call = [op |-> "size", arg |-> <<state, u>>, ret |-> <<>>]

DrawSize ==
    /\ call.op = "size"
    /\ call.ret = <<>>
    /\ call' = [call EXCEPT !.ret = << SizeOf(call.arg[1], call.arg[2]) >>]
    /\ UNCHANGED <<seed, width, height, genVars, world, histVars, gameVars>>

NextSize == DrawSize

SpecSize == InitSize /\ [][NextSize]_vars

\* ------------------------------------------------------------------------
\* The location generator on every kind of settlement: the player stands on
\* a settlement tile and enters and leaves it
\* ------------------------------------------------------------------------
MaxLocSeed == 7

\* world seeds spread so that the first draws of the generator differ
LocSeeds == {3 * k : k \in 0..MaxLocSeed}

\* terrain and the species generate_location can give it
SettlementKinds ==
    {<<"Plains", "Human">>, <<"Plains", "Elf">>, <<"Forest", "Human">>,
     <<"Forest", "Elf">>, <<"Desert", "Cat">>, <<"Desert", "Rat">>,
     <<"Jungle", "Bee">>, <<"Snow", "Ghost">>, <<"Swamp", "Rat">>}

\* states with sizes of their range: both ends, and around the wall threshold
SettlementSizes ==
    {<<"Ruins", 10>>, <<"Ruins", 29>>, <<"Abandoned", 10>>, <<"Abandoned", 29>>,
     <<"Cursed", 5>>, <<"Cursed", 14>>, <<"Hidden", 5>>, <<"Hidden", 14>>,
     <<"Struggling", 30>>, <<"Struggling", 49>>, <<"Sacred", 20>>, <<"Sacred", 39>>,
     <<"Thriving", 50>>, <<"Thriving", 51>>, <<"Thriving", 80>>, <<"Thriving", 99>>}

InitLoc ==
    /\ seed = 0 /\ width = 1 /\ height = 1
    /\ rng = 0 /\ river_mouths = <<>> /\ gpc = "done" /\ grid = <<>>
    /\ prev_world = NoWorld /\ prev_rivers = <<>> /\ runs = 1
    /\ world_pos = [x |-> 0, y |-> 0] /\ local_pos = [x |-> 0, y |-> 0]
    /\ location_map = NoMap /\ steps = 0 /\ entries = <<>> /\ census = {}
    /\ call = NoCall
    /\ phase = "PlayingWorld"
    /\ \E s \in LocSeeds, kind \in SettlementKinds, sz \in SettlementSizes :
        world = [seed |-> s, width |-> 1, height |-> 1, wraparound |-> TRUE,
                 tiles |-> << [height |-> 600, terrain |-> kind[1],
                               location |-> << [name |-> "Settlement", species |-> kind[2],
                                                state |-> sz[1], size |-> sz[2],
                                                governance |-> "Democracy",
                                                industry |-> "Farming"] >>,
                               blocked |-> FALSE, seen |-> FALSE] >>]

NextLoc == EnterLocation \/ ExitLocation

SpecLoc == InitLoc /\ [][NextLoc]_vars

\* ------------------------------------------------------------------------
\* World::new alone, over many seeds
\* ------------------------------------------------------------------------
MaxGenSeed == 199

GenDims == {<<4, 3>>, <<6, 5>>}

InitGen ==
    /\ seed \in 0..MaxGenSeed
    /\ \E d \in GenDims : width = d[1] /\ height = d[2]
    /\ rng = 0 /\ river_mouths = <<>> /\ gpc = "idle" /\ grid = <<>>
    /\ world = NoWorld /\ prev_world = NoWorld /\ prev_rivers = <<>> /\ runs = 0
    /\ phase = "Menu"
    /\ world_pos = [x |-> 0, y |-> 0] /\ local_pos = [x |-> 0, y |-> 0]
    /\ location_map = NoMap /\ steps = 0 /\ entries = <<>> /\ census = {}
    /\ call = NoCall

NextGen == WorldGeneratorNew \/ GenerateFields \/ ConvertCell \/ PackageWorld

SpecGen == InitGen /\ [][NextGen]_vars

\* ------------------------------------------------------------------------
\* World::new on the edges of its input: the largest seeds, empty grids
\* ------------------------------------------------------------------------
MaxEdgeSeed == 1

EdgeSeeds == (0..MaxEdgeSeed) \cup ((I32Mod - 5)..(I32Mod - 1))

EdgeDims == {<<0, 0>>, <<0, 2>>, <<3, 0>>, <<1, 1>>, <<3, 2>>}

InitNew ==
    /\ seed \in EdgeSeeds
    /\ \E d \in EdgeDims : width = d[1] /\ height = d[2]
    /\ rng = 0 /\ river_mouths = <<>> /\ gpc = "idle" /\ grid = <<>>
    /\ world = NoWorld /\ prev_world = NoWorld /\ prev_rivers = <<>> /\ runs = 0
    /\ phase = "Menu"
    /\ world_pos = [x |-> 0, y |-> 0] /\ local_pos = [x |-> 0, y |-> 0]
    /\ location_map = NoMap /\ steps = 0 /\ entries = <<>> /\ census = {}
    /\ call = NoCall

NextNew == WorldGeneratorNew \/ GenerateFields \/ ConvertCell \/ PackageWorld

SpecNew == InitNew /\ [][NextNew]_vars

\* ------------------------------------------------------------------------
\* World::new called for one seed after the other, the species of the
\* settlements of every returned World collected
\* ------------------------------------------------------------------------
MaxSweepSeed == 12

InitSweep ==
    /\ seed = 0 /\ width = 10 /\ height = 9
    /\ rng = 0 /\ river_mouths = <<>> /\ gpc = "idle" /\ grid = <<>>
    /\ world = NoWorld /\ prev_world = NoWorld /\ prev_rivers = <<>> /\ runs = 0
    /\ phase = "Menu"
    /\ world_pos = [x |-> 0, y |-> 0] /\ local_pos = [x |-> 0, y |-> 0]
    /\ location_map = NoMap /\ steps = 0 /\ entries = <<>> /\ census = {}
    /\ call = NoCall

\* the species of the settlements of a world
SpeciesIn(wd) ==
    {wd.tiles[i].location[1].species :
        i \in {k \in DOMAIN wd.tiles : wd.tiles[k].location # <<>>}}

\* the caller looks at the returned World and goes on to the next seed
NextWorld ==
    /\ gpc = "done"
    /\ census' = census \cup SpeciesIn(world)
    /\ IF seed < MaxSweepSeed
       THEN seed' = seed + 1 /\ gpc' = "idle" /\ runs' = 0
       ELSE seed' = seed /\ gpc' = "swept" /\ runs' = runs
    /\ UNCHANGED <<width, height, call, rng, river_mouths, grid, world, prev_world,
                   prev_rivers, entries, gameVars>>

NextSweep ==
    WorldGeneratorNew \/ GenerateFields \/ ConvertCell \/ PackageWorld \/ NextWorld

SpecSweep == InitSweep /\ [][NextSweep]_vars

\* ------------------------------------------------------------------------
\* Properties
\* ------------------------------------------------------------------------
AllTiles == {grid[i] : i \in 1..Len(grid)} \cup {world.tiles[i] : i \in 1..Len(world.tiles)}

Settlements == {t.location[1] : t \in {u \in AllTiles : u.location # <<>>}}

\* C1: two runs of World::new with the same seed and dimensions give worlds
\* that agree cell by cell on terrain and on settlements (presence, species,
\* state, size), and the same river cells.
C1_Deterministic ==
    (runs = 2 /\ gpc = "done") =>
        /\ Len(world.tiles) = Len(prev_world.tiles)
        /\ \A i \in 1..Len(world.tiles) :
            /\ world.tiles[i].terrain = prev_world.tiles[i].terrain
            /\ Len(world.tiles[i].location) = Len(prev_world.tiles[i].location)
            /\ world.tiles[i].location # <<>> =>
                /\ world.tiles[i].location[1].species = prev_world.tiles[i].location[1].species
                /\ world.tiles[i].location[1].state = prev_world.tiles[i].location[1].state
                /\ world.tiles[i].location[1].size = prev_world.tiles[i].location[1].size
        /\ river_mouths = prev_rivers

C1_Witness ==
    /\ runs = 2 /\ gpc = "done"
    /\ river_mouths # <<>>
    /\ \E i \in 1..Len(world.tiles) : world.tiles[i].location # <<>>
    /\ \E i \in 1..Len(world.tiles) : world.tiles[i].terrain \notin {"Water", "Mountains"}

\* C2: on a wraparound world with width, height >= 1 the wrapped coordinates
\* of any position lie in [0, width) x [0, height).
C2_WrappedInRange ==
    (call.op = "get_wrapped_coordinates" /\ world.wraparound /\ Len(call.ret) >= 1) =>
        /\ 0 <= call.ret[1].x /\ call.ret[1].x < world.width
        /\ 0 <= call.ret[1].y /\ call.ret[1].y < world.height

\* an input beyond the signed word whose low word is negative has been wrapped
C2_Witness ==
    /\ call.op = "get_wrapped_coordinates" /\ world.wraparound /\ Len(call.ret) >= 1
    /\ call.arg[1].x >= I32Mod \div 2 /\ AsI32(call.arg[1].x) < 0
    /\ call.arg[1].y >= world.height
    /\ world.width > 2

\* C3: wrapping is idempotent, and a position inside the grid is returned
\* unchanged.
C3_Idempotent ==
    call.op = "get_wrapped_coordinates" =>
        /\ Len(call.ret) = 2 => call.ret[2] = call.ret[1]
        /\ (Len(call.ret) >= 1 /\ call.arg[1].x < world.width /\ call.arg[1].y < world.height)
               => call.ret[1] = call.arg[1]

C3_Witness ==
    /\ call.op = "get_wrapped_coordinates" /\ Len(call.ret) = 2
    /\ call.ret[1] # call.arg[1]
    /\ call.ret[1].x = world.width - 1 /\ world.width > 1

\* C4: on every tile, during generation and after any later operation,
\* blocked holds exactly when the terrain is Water or Mountains.
C4_BlockedDerived ==
    \A t \in AllTiles : t.blocked <=> t.terrain \in {"Water", "Mountains"}

\* a river runs over land, the player has moved about and seen tiles
C4_Witness ==
    /\ phase = "PlayingWorld" /\ steps >= 2
    /\ \E i \in 1..Len(world.tiles) : world.tiles[i].seen
    /\ \E i \in 1..Len(world.tiles) : world.tiles[i].terrain = "Mountains"
    /\ \E k \in 1..Len(river_mouths) :
        TerrainMap(seed, height, river_mouths[k][1], river_mouths[k][2])
            \notin {"Water", "Mountains"}

\* C5: find_spawn_position returns an in-bounds walkable position whenever
\* the map has a walkable tile, and (1, 1) when it has none.
C5_SpawnWalkable ==
    (call.op = "find_spawn_position" /\ call.ret # <<>>) =>
        LET map == call.arg[1]
            p == call.ret[1]
            open == {i \in 1..Len(map.tiles) :
                        map.tiles[i].tile_type
                            \notin {"Wall", "HumanHouse", "ElfTreehouse", "OrcHut"}}
        IN  IF open # {}
            THEN p.x < map.width /\ p.y < map.height /\ Idx(map.width, p.x, p.y) \in open
            ELSE p = [x |-> 1, y |-> 1]

\* the only walkable tiles lie outside the square searched around the centre
C5_Witness ==
    /\ call.op = "find_spawn_position" /\ call.ret # <<>>
    /\ RingSearch(call.arg[1], 0) = <<>>
    /\ RasterSearch(call.arg[1]) # <<>>
    /\ call.ret[1] # [x |-> 1, y |-> 1]

\* C6: the size of every settlement lies in the band of its state.
C6_SizeInBand ==
    \A l \in Settlements :
        /\ l.state \in {"Ruins", "Abandoned"} => (10 <= l.size /\ l.size < 30)
        /\ l.state \in {"Cursed", "Hidden"} => (5 <= l.size /\ l.size < 15)
        /\ l.state = "Struggling" => (30 <= l.size /\ l.size < 50)
        /\ l.state = "Sacred" => (20 <= l.size /\ l.size < 40)
        /\ l.state = "Thriving" => (50 <= l.size /\ l.size < 100)

C6_Witness ==
    /\ gpc = "done"
    /\ \E i, j \in 1..Len(world.tiles) :
        /\ world.tiles[i].location # <<>> /\ world.tiles[j].location # <<>>
        /\ world.tiles[i].location[1].state = "Thriving"
        /\ world.tiles[j].location[1].state # "Thriving"

\* the settlement the player stands on, while inside its map
InSettlement == phase = "PlayingLocation"
CurrentTile == TileAt(world, world_pos.x, world_pos.y)
CurrentLocation == CurrentTile.location[1]

\* the human settlement as it is when add_walls is called
BeforeWalls ==
    LET dims == determine_map_size(SeedFromU64(world.seed), CurrentLocation.size)
        g == [map |-> create_empty_map(dims.width, dims.height), rng |-> dims.rng,
              ok |-> TRUE, base_terrain |-> CurrentTile.terrain,
              location |-> CurrentLocation]
    IN  place_houses(place_central_features(generate_road_network(g))).map

\* the rectangle inset 3 tiles from the edge of the map
OnRing(map, x, y) ==
    \/ y \in {3, map.height - 4} /\ 3 <= x /\ x <= map.width - 4
    \/ x \in {3, map.width - 4} /\ 3 <= y /\ y <= map.height - 4

MapCells(map) == {c \in (0..(map.width - 1)) \X (0..(map.height - 1)) : TRUE}

\* C7: the map of a Human settlement with size > 50 has the wall ring: the
\* ring tiles are Wall, except those where a road crossed the wall line, which
\* are road; in particular the map contains Wall tiles.
C7_WallRing ==
    (InSettlement /\ CurrentLocation.species = "Human" /\ CurrentLocation.size > 50) =>
        /\ \A c \in MapCells(location_map) :
            OnRing(location_map, c[1], c[2]) =>
                TypeAt(location_map, c[1], c[2]) =
                    IF TypeAt(BeforeWalls, c[1], c[2]) = "HumanRoad"
                    THEN "HumanRoad" ELSE "Wall"
        /\ \E c \in MapCells(location_map) : TypeAt(location_map, c[1], c[2]) = "Wall"

\* C8: in the map of a Human settlement every tile of row height/2 and of
\* column width/2 is a road tile.
C8_CentralRoads ==
    (InSettlement /\ CurrentLocation.species = "Human") =>
        /\ \A x \in 0..(location_map.width - 1) :
            TypeAt(location_map, x, location_map.height \div 2) = "HumanRoad"
        /\ \A y \in 0..(location_map.height - 1) :
            TypeAt(location_map, location_map.width \div 2, y) = "HumanRoad"

\* a walled settlement with houses and its three central features
C8_Witness ==
    /\ InSettlement /\ CurrentLocation.species = "Human" /\ CurrentLocation.size > 50
    /\ \E c \in MapCells(location_map) : TypeAt(location_map, c[1], c[2]) = "HumanHouse"
    /\ Len(location_map.points_of_interest) >= 3
    /\ location_map.width > 10

\* the radius-4 neighbourhood of the position lies inside the grid
Interior(wd, pos) ==
    /\ pos.x >= FOG_RADIUS /\ pos.x + FOG_RADIUS < wd.width
    /\ pos.y >= FOG_RADIUS /\ pos.y + FOG_RADIUS < wd.height

Dist2(pos, x, y) == (x - pos.x) * (x - pos.x) + (y - pos.y) * (y - pos.y)

\* C9: World::update at a position whose radius-4 neighbourhood lies inside
\* the grid sets seen on every tile at squared distance <= 16, leaves seen
\* unchanged on every tile at squared distance >= 17, and changes no other
\* field of any tile.
C9_UpdateFrame ==
    [][(Update /\ Interior(world, world_pos)) =>
        /\ world'.width = world.width /\ world'.height = world.height
        /\ \A c \in Cells(world) :
            LET old == TileAt(world, c[1], c[2])
                new == TileAt(world', c[1], c[2])
            IN  /\ Dist2(world_pos, c[1], c[2]) <= 16 => new.seen
                /\ Dist2(world_pos, c[1], c[2]) >= 17 => new.seen = old.seen
                /\ [new EXCEPT !.seen = old.seen] = old]_vars

\* after an update: the whole disc is seen, and a tile outside it is not
C9_Witness ==
    /\ phase = "PlayingWorld" /\ steps >= 1 /\ Interior(world, world_pos)
    /\ \A c \in Cells(world) :
        Dist2(world_pos, c[1], c[2]) <= 16 => TileAt(world, c[1], c[2]).seen
    /\ \E c \in Cells(world) :
        Dist2(world_pos, c[1], c[2]) >= 17 /\ ~TileAt(world, c[1], c[2]).seen

\* C10: a tile that is seen stays seen in every later state.
C10_SeenMonotone ==
    [][\A i \in 1..Len(world.tiles) :
        world.tiles[i].seen => (i <= Len(world'.tiles) /\ world'.tiles[i].seen)]_vars

\* inside a settlement, with a tile seen that the last update of the
\* position the player stands on would not mark
C10_Witness ==
    /\ InSettlement /\ steps >= 3
    /\ \E c \in Cells(world) :
        /\ TileAt(world, c[1], c[2]).seen
        /\ c \notin Marked(world, world_pos, FOG_RADIUS)
\* C11: every entrance of a settlement tile produces the map and the spawn
\* position of every earlier entrance of that tile (same dimensions, tiles,
\* features and points of interest), whatever was done in between.
C11_StableLayout ==
    \A i, j \in 1..Len(entries) :
        entries[i].pos = entries[j].pos => entries[i] = entries[j]

\* a tile has been entered, left and entered again, and an update ran
C11_Witness ==
    /\ phase = "PlayingLocation"
    /\ Len(entries) >= 2
    /\ entries[1].pos = entries[2].pos
    /\ entries[2].map = location_map
    /\ Len(location_map.points_of_interest) > 0
\* the tiles bearing a settlement of the species
Bearers(wd, species) ==
    {c \in Cells(wd) : LET t == TileAt(wd, c[1], c[2])
                       IN  t.location # <<>> /\ t.location[1].species = species}

Manhattan(start, c) == Abs(start.x - c[1]) + Abs(start.y - c[2])

\* C12: find_nearest_species returns None exactly when no tile bears a
\* settlement of the species; otherwise the returned tile bears one, no
\* bearer is nearer to start in Manhattan distance, and no bearer at the
\* same distance comes earlier in row-major order.
C12_NearestSpecies ==
    (call.op = "find_nearest_species" /\ call.ret # <<>>) =>
        LET start == call.arg[1]
            found == call.ret[1]
            bearers == Bearers(world, call.arg[2])
        IN  /\ (found = <<>>) <=> (bearers = {})
            /\ found # <<>> =>
                  LET p == <<found[1].x, found[1].y>>
                  IN  /\ p \in bearers
                      /\ \A c \in bearers :
                            /\ Manhattan(start, p) <= Manhattan(start, c)
                            /\ Manhattan(start, c) = Manhattan(start, p) =>
                                  Idx(world.width, p[1], p[2])
                                      <= Idx(world.width, c[1], c[2])

\* a call answered with a tile that ties with a later bearer and beats another
C12_Witness ==
    /\ call.op = "find_nearest_species"
    /\ call.ret # <<>> /\ call.ret[1] # <<>>
    /\ LET start == call.arg[1]
           p == <<call.ret[1][1].x, call.ret[1][1].y>>
           bearers == Bearers(world, call.arg[2])
       IN  /\ \E c \in bearers : c # p /\ Manhattan(start, c) = Manhattan(start, p)
           /\ \E c \in bearers : Manhattan(start, c) > Manhattan(start, p)
\* C13: LocationGenerator::generate is total: entering any settlement the
\* world generator can produce ends with a LocationMap, never in a panic.
C13_GenerateTotal == phase # "Panicked"
\* C14: World::new called with width 0 or height 0 fails fast: it never
\* returns a World, so never one whose tile grid is empty.
C14_ZeroDimsFailFast ==
    (width = 0 \/ height = 0) => (gpc # "done" /\ runs = 0)

\* C15: for every seed and positive width and height World::new returns a
\* World: no run ends in a panic, whatever the build and the file system.
C15_NewCannotFail ==
    (width > 0 /\ height > 0) => gpc # "panicked"
\* C16: determine_biome decides by height first, then cold, then hot and
\* dry or hot and wet, then the moisture bands: each terrain is returned
\* exactly on the inputs no earlier rule claims, one terrain per input,
\* never Road.
C16_BiomePrecedence ==
    (call.op = "determine_biome" /\ call.ret # <<>>) =>
        LET h == call.arg[1]
            t == call.arg[2]
            m == call.arg[3]
            biome == call.ret[1]
            land == h >= 500 /\ h <= 780
            mild == land /\ t >= 250
            hot == t > 500
        IN  /\ biome \in TerrainType \ {"Road"}
            /\ (biome = "Water") <=> (h < 500)
            /\ (biome = "Mountains") <=> (h > 780)
            /\ (biome = "Snow") <=> (land /\ t < 250)
            /\ (biome = "Desert") <=> (mild /\ hot /\ m < 400)
            /\ (biome = "Jungle") <=> (mild /\ hot /\ m > 600)
            /\ (biome = "Plains") <=> (mild /\ ~hot /\ m < 400)
            /\ (biome = "Forest") <=> (mild /\ m >= 400 /\ m < 600)
            /\ (biome = "Swamp") <=> (mild /\ m >= 600 /\ ~(hot /\ m > 600))

\* a cold, dry cell above the ocean level came out as Snow, not Plains
C16_Witness ==
    /\ call.op = "determine_biome"
    /\ call.ret = << "Snow" >>
    /\ call.arg[3] < 400
\* the cells whose remapped ridged value exceeds the threshold
RiverSet == {c \in (0..(width - 1)) \X (0..(height - 1)) : RiverMap(seed, c[1], c[2])}

\* C17: in the World returned by generate every cell above the river
\* threshold is Water, blocked and without settlement, whatever its biome,
\* and river_mouths lists exactly those cells, each once.
C17_RiversCarved ==
    gpc = "done" =>
        /\ \A c \in RiverSet :
              LET t == TileAt(world, c[1], c[2])
              IN  t.terrain = "Water" /\ t.blocked /\ t.location = <<>>
        /\ {river_mouths[k] : k \in 1..Len(river_mouths)} = RiverSet
        /\ Len(river_mouths) = Cardinality(RiverSet)

\* a returned world in which a river runs over a cell classified Mountains
\* and over a cell classified as open land
C17_Witness ==
    /\ gpc = "done"
    /\ \E c \in RiverSet : TerrainMap(seed, height, c[1], c[2]) = "Mountains"
    /\ \E c \in RiverSet : TerrainMap(seed, height, c[1], c[2]) \notin {"Mountains", "Water"}
    /\ \E c \in Cells(world) : c \notin RiverSet
\* the tile convert_terrain_to_tiles has just built
NewTile == grid'[Len(grid')]

\* C18: a tile of Water or Mountains is blocked and carries no settlement,
\* every tile carries at most one settlement, and building a blocked tile
\* leaves the random stream where it was.
C18_SettlementsOnOpenTiles ==
    [][(gpc = "tiles" /\ Len(grid') = Len(grid) + 1) =>
          /\ Len(NewTile.location) <= 1
          /\ (NewTile.blocked \/ NewTile.terrain \in {"Water", "Mountains"}) =>
                (NewTile.location = <<>> /\ rng' = rng)]_vars

\* tiles are being built: the last one is blocked, an earlier one has a
\* settlement, and the stream has been drawn from
C18_Witness ==
    /\ gpc = "tiles"
    /\ Len(grid) >= 2
    /\ grid[Len(grid)].blocked
    /\ \E k \in 1..(Len(grid) - 1) : grid[k].location # <<>>
    /\ rng # SeedFromU64(seed)
\* the species listed for a terrain
AllowedSpecies(terrain) ==
    CASE terrain \in {"Plains", "Forest"} -> {"Human", "Elf"}
      [] terrain = "Mountains" -> {"Bear", "Ghost"}
      [] terrain = "Desert" -> {"Cat", "Rat"}
      [] terrain = "Jungle" -> {"Bee"}
      [] terrain = "Snow" -> {"Ghost"}
      [] terrain = "Swamp" -> {"Rat"}
      [] OTHER -> {}

ListedSpecies == {"Human", "Elf", "Bear", "Ghost", "Cat", "Rat", "Bee"}

\* C19: the species of every settlement is one its tile's terrain allows,
\* and every listed species, Bear included, is met among the settlements of
\* the worlds generated for the seeds 0 .. MaxSweepSeed.
C19_SpeciesByTerrain ==
    /\ \A i \in 1..Len(grid) :
          grid[i].location # <<>> =>
              grid[i].location[1].species \in AllowedSpecies(grid[i].terrain)
    /\ gpc = "swept" => ListedSpecies \subseteq census
\* the industries listed for a terrain
IndustryTable(terrain) ==
    CASE terrain = "Plains" -> {"Farming", "Trading"}
      [] terrain = "Forest" -> {"Lumber", "Hunting"}
      [] terrain = "Desert" -> {"Trading", "Mining"}
      [] terrain = "Jungle" -> {"Hunting", "Foraging"}
      [] terrain = "Snow" -> {"Hunting", "Crafting"}
      [] terrain = "Swamp" -> {"Foraging", "Fishing"}
      [] OTHER -> {}

\* C20: the industry stored in every settlement is one of its host
\* terrain's table.
C20_IndustryByTerrain ==
    \A i \in 1..Len(grid) :
        grid[i].location # <<>> =>
            grid[i].location[1].industry \in IndustryTable(grid[i].terrain)
\* the sizes the draw can produce for a state
Producible(state) == {SizeOf(state, u) : u \in RawDraws}

\* states are in one band when they are drawn by the same match arm
Band(state) ==
    CASE state \in {"Ruins", "Abandoned"} -> "RuinsAbandoned"
      [] state \in {"Cursed", "Hidden"} -> "CursedHidden"
      [] OTHER -> state

\* C21: a size drawn for a state cannot be produced for a state of another
\* band.
C21_BandsDisjoint ==
    (call.op = "size" /\ call.ret # <<>>) =>
        \A other \in LocationState :
            Band(other) # Band(call.arg[1]) => call.ret[1] \notin Producible(other)

\* the pairs of bands that share sizes, with the sizes they share
SharedSizes(a, b) ==
    CASE {a, b} = {"CursedHidden", "RuinsAbandoned"} -> 10..14
      [] {a, b} = {"Sacred", "RuinsAbandoned"} -> 20..29
      [] {a, b} = {"Sacred", "Struggling"} -> 30..39
      [] OTHER -> {}

\* C21, amended: a size drawn for a state can be produced for a state of
\* another band only when the two bands are Cursed/Hidden and
\* Ruins/Abandoned (10..14), Sacred and Ruins/Abandoned (20..29) or Sacred
\* and Struggling (30..39); every other size determines its band.
C21_BandsDisjointButThree ==
    (call.op = "size" /\ call.ret # <<>>) =>
        \A other \in LocationState :
            Band(other) # Band(call.arg[1]) =>
                ((call.ret[1] \in Producible(other))
                    <=> (call.ret[1] \in SharedSizes(Band(other), Band(call.arg[1]))))

\* a Sacred settlement was given a size that Struggling settlements get too
C21_Witness ==
    /\ call.op = "size"
    /\ call.arg[1] = "Sacred"
    /\ call.ret # <<>>
    /\ call.ret[1] \in Producible("Struggling")

\* the variance draws of determine_map_size
Variances == (0 - 2)..2

\* the side of the map for settlement size s and variance draw v
SideFor(s, v) == 2 * Max(5, SqrtFloor(s) + v)

\* C22: the map of a settlement of size s is square with side
\* 2 * max(5, floor(sqrt(s)) + v) for a variance draw v in -2..2: the side is
\* even and at least 10, the grid has width tiles in each of its height rows,
\* and the map the player walks on keeps the dimensions it was generated with.
C22_MapSizing ==
    InSettlement =>
        /\ \E v \in Variances :
            /\ location_map.width = SideFor(CurrentLocation.size, v)
            /\ location_map.height = SideFor(CurrentLocation.size, v)
        /\ location_map.width % 2 = 0 /\ location_map.width >= 10
        /\ Len(location_map.tiles) = location_map.width * location_map.height
        /\ location_map.width = entries[Len(entries)].map.width
        /\ location_map.height = entries[Len(entries)].map.height

\* a settlement of size 99 whose draw is +2: the largest map, 22 by 22
C22_Witness ==
    /\ InSettlement /\ CurrentLocation.size = 99
    /\ location_map.width = SideFor(99, 2) /\ location_map.width = 22

\* the entries of points_of_interest at a position
EntriesAt(map, x, y) ==
    {k \in 1..Len(map.points_of_interest) :
        map.points_of_interest[k].position = [x |-> x, y |-> y]}

\* C23: in a generated map every entry of points_of_interest has a position
\* inside the map whose tile holds that entry's feature, every tile holding a
\* feature has exactly one entry, and no two entries share a position.
C23_FeatureOwnership ==
    InSettlement =>
        /\ \A k \in 1..Len(location_map.points_of_interest) :
            LET poi == location_map.points_of_interest[k]
            IN  /\ poi.position.x < location_map.width
                /\ poi.position.y < location_map.height
                /\ TileAt(location_map, poi.position.x, poi.position.y).feature
                       = <<poi.feature>>
        /\ \A c \in MapCells(location_map) :
            /\ TileAt(location_map, c[1], c[2]).feature # <<>>
                   => Cardinality(EntriesAt(location_map, c[1], c[2])) = 1
            /\ Cardinality(EntriesAt(location_map, c[1], c[2])) <= 1

\* the human settlement as it is when place_houses is called
BeforeHouses ==
    LET dims == determine_map_size(SeedFromU64(world.seed), CurrentLocation.size)
        g == [map |-> create_empty_map(dims.width, dims.height), rng |-> dims.rng,
              ok |-> TRUE, base_terrain |-> CurrentTile.terrain,
              location |-> CurrentLocation]
    IN  place_central_features(generate_road_network(g)).map

\* the 8 neighbours of a tile that lie inside the map
Neighbours(map, x, y) ==
    {c \in MapCells(map) : c # <<x, y>> /\ Abs(c[1] - x) <= 1 /\ Abs(c[2] - y) <= 1}

HouseTypes == {"HumanHouse", "ElfTreehouse", "OrcHut"}

\* C24: in the map of a Human settlement every HumanHouse tile was Ground when
\* the houses were placed, is not on the outermost row or column and has a
\* road tile among its 8 neighbours; the map of a species other than Human
\* and Elf has no house tile.
C24_HousesBesideRoads ==
    InSettlement =>
        /\ CurrentLocation.species = "Human" =>
            \A c \in MapCells(location_map) :
                TypeAt(location_map, c[1], c[2]) = "HumanHouse" =>
                    /\ TypeAt(BeforeHouses, c[1], c[2]) = "Ground"
                    /\ c[1] >= 1 /\ c[1] <= location_map.width - 2
                    /\ c[2] >= 1 /\ c[2] <= location_map.height - 2
                    /\ \E n \in Neighbours(location_map, c[1], c[2]) :
                        TypeAt(location_map, n[1], n[2]) = "HumanRoad"
        /\ CurrentLocation.species \notin {"Human", "Elf"} =>
            \A c \in MapCells(location_map) :
                TypeAt(location_map, c[1], c[2]) \notin HouseTypes

\* a Human map with a house whose only road neighbours are diagonal, and a
\* Ground tile beside a road that stayed without a house
C24_Witness ==
    /\ InSettlement /\ CurrentLocation.species = "Human"
    /\ \E c \in MapCells(location_map) :
        /\ TypeAt(location_map, c[1], c[2]) = "HumanHouse"
        /\ \A n \in Neighbours(location_map, c[1], c[2]) :
            TypeAt(location_map, n[1], n[2]) = "HumanRoad"
                => (n[1] # c[1] /\ n[2] # c[2])
    /\ \E c \in MapCells(location_map) :
        /\ TypeAt(location_map, c[1], c[2]) = "Ground"
        /\ \E n \in Neighbours(location_map, c[1], c[2]) :
            TypeAt(location_map, n[1], n[2]) = "HumanRoad"

\* a map of a single tile of the given type
OneTile(tile_type) ==
    [width |-> 1, height |-> 1,
     tiles |-> << [blocked |-> FALSE, tile_type |-> tile_type, feature |-> <<>>] >>,
     points_of_interest |-> <<>>]

\* the tile a key leads to
Destination(pos, key) ==
    [x |-> pos.x + get_direction(key)[1], y |-> pos.y + get_direction(key)[2]]

\* C25: the movement inside a location and the spawn search use the same
\* rule: for every tile type the movement is stopped exactly when is_walkable
\* is false (Wall, HumanHouse, ElfTreehouse, OrcHut), and wherever the player
\* stands a key moves the player to the destination tile iff that tile is in
\* the map and is_walkable holds for it.
C25_OneWalkabilityRule ==
    /\ \A t \in LocationTileType :
        /\ MovementBlocks(t) = ~is_walkable(OneTile(t), 0, 0)
        /\ MovementBlocks(t) = (t \in {"Wall", "HumanHouse", "ElfTreehouse", "OrcHut"})
    /\ InSettlement =>
        \A key \in Keys :
            LET dest == Destination(local_pos, key)
            IN  handle_location_movement(key, local_pos, location_map) =
                    IF /\ dest.x >= 0 /\ dest.x < location_map.width
                       /\ dest.y >= 0 /\ dest.y < location_map.height
                       /\ is_walkable(location_map, dest.x, dest.y)
                    THEN dest ELSE local_pos

\* the player stands beside a house and beside an open tile
C25_Witness ==
    /\ InSettlement
    /\ \E key \in Keys :
        LET dest == Destination(local_pos, key)
        IN  /\ dest.x >= 0 /\ dest.x < location_map.width
            /\ dest.y >= 0 /\ dest.y < location_map.height
            /\ ~is_walkable(location_map, dest.x, dest.y)
    /\ \E key \in Keys :
        handle_location_movement(key, local_pos, location_map) # local_pos

\* the player is within the fog radius of the left or the top edge
NearLeftOrTop(pos) == pos.x < FOG_RADIUS \/ pos.y < FOG_RADIUS

\* the tiles of the disc around pos on the torus, by get_wrapped_coordinates
ToroidalDisc(wd, pos) ==
    {<<p.x, p.y>> : p \in
        {get_wrapped_coordinates(wd, [x |-> AsUsize(AsI32(pos.x) + d[1]),
                                      y |-> AsUsize(AsI32(pos.y) + d[2])]) :
            d \in {e \in ((0 - FOG_RADIUS)..FOG_RADIUS) \X ((0 - FOG_RADIUS)..FOG_RADIUS) :
                      e[1] * e[1] + e[2] * e[2] <= FOG_RADIUS * FOG_RADIUS}}}

\* C26: on a wraparound world of any size World::update, with the player
\* within 4 tiles of the left or top edge, marks as seen exactly the tiles
\* ((px+dx) mod width, (py+dy) mod height) with dx*dx + dy*dy <= 16.
C26_VisibilityWraps ==
    [][(Update /\ world.wraparound /\ NearLeftOrTop(world_pos)) =>
        \A c \in Cells(world) :
            TileAt(world', c[1], c[2]).seen =
                (TileAt(world, c[1], c[2]).seen \/ c \in ToroidalDisc(world, world_pos))]_vars

\* C27: for every map height and every noise value a cell of the top row or
\* of the bottom row whose elevation lies between the ocean and the mountain
\* thresholds has a temperature below 0.25 and is classified Snow.
C27_ColdEdges ==
    (call.op = "get_temperature" /\ call.ret # <<>>) =>
        (call.ret[1] < 250 /\ call.ret[2] = "Snow")

\* the Manhattan distance of the walk to the centre
ToCentre ==
    Abs(call.ret[1].x - location_map.width \div 2)
        + Abs(call.ret[1].y - location_map.height \div 2)

\* C28: the walk of create_branching_road from a tile of the top or bottom
\* edge stays inside the map and never moves away from the centre, and when
\* gen_bool does not choose the aligned axis for ever it reaches the centre,
\* where the loop ends.
C28_BranchTerminates ==
    /\ [](call.op = "create_branching_road" =>
            /\ call.ret[1].x >= 0 /\ call.ret[1].x < location_map.width
            /\ call.ret[1].y >= 0 /\ call.ret[1].y < location_map.height)
    /\ [][ToCentre' <= ToCentre]_vars
    /\ <>AtCentre

\* a walk from the corner that has arrived at the centre
C28_Witness ==
    /\ call.op = "create_branching_road"
    /\ call.arg[1] = [x |-> 0, y |-> 0]
    /\ AtCentre
    /\ TypeAt(location_map, 0, 0) = "HumanRoad"

\* C29: whatever keys are pressed and whatever settlements are entered and
\* left, the world position is inside the grid on a tile that is not blocked,
\* and inside a settlement the local position is inside the map on a tile
\* for which is_walkable holds.
C29_NeverOnImpassable ==
    /\ phase \in {"PlayingWorld", "PlayingLocation"} =>
        /\ world_pos.x >= 0 /\ world_pos.x < world.width
        /\ world_pos.y >= 0 /\ world_pos.y < world.height
        /\ ~TileAt(world, world_pos.x, world_pos.y).blocked
    /\ InSettlement =>
        /\ local_pos.x >= 0 /\ local_pos.x < location_map.width
        /\ local_pos.y >= 0 /\ local_pos.y < location_map.height
        /\ is_walkable(location_map, local_pos.x, local_pos.y)

\* the player has walked away from the spawn tile of a settlement that lies
\* beside a blocked world tile
C29_Witness ==
    /\ InSettlement
    /\ local_pos # entries[Len(entries)].spawn
    /\ \E key \in Keys :
        LET d == get_direction(key)
        IN  TileAt(world, (world_pos.x + d[1] + world.width) % world.width,
                          (world_pos.y + d[2] + world.height) % world.height).blocked

\* C30: enter_location starts a visit only on a settlement tile and otherwise
\* leaves phase and positions as they are; entering, moving inside and
\* leaving do not write the world grid or the world position, and after
\* exit_location the phase is PlayingWorld with the player on the world tile
\* the visit began on.
C30_VisitFrame ==
    [][/\ EnterLocation =>
            /\ world' = world /\ world_pos' = world_pos
            /\ phase' = "PlayingLocation" => CurrentTile.location # <<>>
            /\ CurrentTile.location = <<>> =>
                (phase' = phase /\ local_pos' = local_pos /\ location_map' = location_map)
       /\ (\E key \in Keys : HandleLocationMovement(key)) =>
            (world' = world /\ world_pos' = world_pos /\ phase' = phase)
       /\ ExitLocation =>
            /\ phase' = "PlayingWorld"
            /\ world' = world
            /\ world_pos' = entries[Len(entries)].pos
       /\ InSettlement => world_pos = entries[Len(entries)].pos]_vars

\* back on the world map after a visit in which the player walked away from
\* the spawn tile
C30_Witness ==
    /\ phase = "PlayingWorld"
    /\ Len(entries) >= 1
    /\ location_map = NoMap
    /\ world_pos = entries[Len(entries)].pos
    /\ local_pos # entries[Len(entries)].spawn
====
